---- MODULE Spec2Model ----
(***************************************************************************)
(* A model of japanese_law_id (src/src/lib.rs): the Gregorian/Wareki       *)
(* calendar, the six ministry periods with their bit positions, the        *)
(* institution code table, and the LawType / LawId string codec.           *)
(*                                                                         *)
(* The library is a set of pure functions.  Each function is an operator,  *)
(* computed the way the code computes it; each specification below draws   *)
(* the inputs of one pipeline from a bounded set and applies the functions *)
(* one call per step.                                                      *)
(*                                                                         *)
(* A Rust String is a sequence of one-character strings.  An Option or a   *)
(* Result is a tuple: <<"Some", v>>, <<"None">>, <<"Ok", v>>, <<"Err">>;   *)
(* a call that aborts (slice out of range, unreachable!()) is <<"Panic">>. *)
(***************************************************************************)
EXTENDS Integers, Sequences, FiniteSets, TLC

VARIABLES
    pc,         \* the call made last
    date,       \* calendar: the Date handed to gen_wareki_year
    wareki,     \* calendar: what Wareki::from_ad returned
    adYear,     \* calendar: what Wareki::to_ad returned
    applies,    \* calendar: what applicable(date) returned, period by period
    otherDate,  \* calendar: the Date that date is compared with
    ordering,   \* calendar: what date.cmp(&otherDate) returned
    text,       \* wareki text: the text handed to Wareki::from_text
    parsed,     \* wareki text: what Wareki::from_text returned
    lawId,      \* encode: the LawId handed to LawId::to_id_str
    otherId,    \* encode: a second LawId, encoded beside the first
    idStr,      \* an ID string: to_id_str's result, or from_id_str's input
    otherStr,   \* encode: to_id_str of the second LawId
    decoded,    \* what LawId::from_id_str returned for idStr
    reStr,      \* decode: to_id_str of the decoded LawId
    period,     \* ministry: the period 1..6 (0: the Institution table)
    members,    \* ministry: the member list handed to to_id_str
    hexStr,     \* ministry: the 7 hex digits to_id_str returned
    byteStr,    \* ministry: the 28 binary digits Ministry::from_id_str builds
    decMembers, \* ministry: what MinistryContents::from_id_str returned
    member,     \* codes: a member or an institution
    code,       \* codes: an integer code
    back,       \* codes: what from_int returned
    recode      \* codes: to_int of the member from_int returned

calVars == <<date, wareki, adYear, applies, otherDate, ordering>>
textVars == <<text, parsed>>
idVars == <<lawId, otherId, idStr, otherStr, decoded, reStr>>
minVars == <<period, members, hexStr, byteStr, decMembers>>
codeVars == <<member, code, back, recode>>
vars == <<pc, calVars, textVars, idVars, minVars, codeVars>>

Idle == <<"idle">>
None == <<"None">>
Panic == <<"Panic">>
Some(v) == <<"Some", v>>
IsSome(o) == o[1] = "Some"

\* the variables of the pipelines a specification does not run
CalIdle ==
    /\ date = Idle /\ wareki = Idle /\ adYear = Idle /\ applies = Idle
    /\ otherDate = Idle /\ ordering = Idle
TextIdle == text = Idle /\ parsed = Idle
IdIdle ==
    /\ lawId = Idle /\ otherId = Idle /\ idStr = Idle
    /\ otherStr = Idle /\ decoded = Idle /\ reStr = Idle
MinIdle ==
    /\ period = 0 /\ members = Idle /\ hexStr = Idle
    /\ byteStr = Idle /\ decMembers = Idle
CodeIdle == member = Idle /\ code = 0 /\ back = Idle /\ recode = 0

-----------------------------------------------------------------------------
(* Era *)

Eras == <<"Meiji", "Taisho", "Showa", "Heisei", "Reiwa">>
EraSet == {Eras[i] : i \in 1..Len(Eras)}

Era_start(e) ==
    CASE e = "Meiji" -> 18681023
      [] e = "Taisho" -> 19120729
      [] e = "Showa" -> 19261225
      [] e = "Heisei" -> 19890108
      [] e = "Reiwa" -> 20190501

Era_start_year(e) ==
    CASE e = "Meiji" -> 1867
      [] e = "Taisho" -> 1911
      [] e = "Showa" -> 1925
      [] e = "Heisei" -> 1988
      [] e = "Reiwa" -> 2018

\* Reiwa has not ended: the code gives usize::MAX, which no key of a date
\* of the model reaches; it is kept as the token "usize::MAX".
Era_end(e) ==
    CASE e = "Meiji" -> 19120728
      [] e = "Taisho" -> 19261224
      [] e = "Showa" -> 19890107
      [] e = "Heisei" -> 20190431
      [] e = "Reiwa" -> "usize::MAX"

\* (start..=end).contains(&t); every usize t is <= usize::MAX.
Era_contains(e, t) ==
    /\ Era_start(e) <= t
    /\ (IF e = "Reiwa" THEN TRUE ELSE t <= Era_end(e))

\* A slip: the eras numbered from zero.
Era_from_number_FromZero(n) ==
    CASE n = 0 -> Some("Meiji")
      [] n = 1 -> Some("Taisho")
      [] n = 2 -> Some("Showa")
      [] n = 3 -> Some("Heisei")
      [] n = 4 -> Some("Reiwa")
      [] OTHER -> None

Era_from_number(n) ==
    CASE n = 1 -> Some("Meiji")
      [] n = 2 -> Some("Taisho")
      [] n = 3 -> Some("Showa")
      [] n = 4 -> Some("Heisei")
      [] n = 5 -> Some("Reiwa")
      [] OTHER -> None

Era_to_number(e) ==
    CASE e = "Meiji" -> 1
      [] e = "Taisho" -> 2
      [] e = "Showa" -> 3
      [] e = "Heisei" -> 4
      [] e = "Reiwa" -> 5

-----------------------------------------------------------------------------
(* Wareki and Date *)

Wareki_new(era, year) == [era |-> era, year |-> year]

Date_new_ad(year, month, day) == [year |-> year, month |-> month, day |-> day]

\* The key the code orders dates by.
DateKey(year, month, day) == year * 10000 + month * 100 + day

\* The era from_ad selects: the first branch of the if-chain whose test
\* holds, "unreachable" when none does.
FromAdEraFirstMatch(t) ==
    IF Era_start("Meiji") <= t /\ t <= Era_end("Meiji") THEN "Meiji"
    ELSE IF Era_start("Taisho") <= t /\ t <= Era_end("Taisho") THEN "Taisho"
    ELSE IF Era_start("Showa") <= t /\ t <= Era_end("Showa") THEN "Showa"
    ELSE IF Era_start("Heisei") <= t /\ t <= Era_end("Heisei") THEN "Heisei"
    ELSE IF Era_start("Reiwa") <= t THEN "Reiwa"
    ELSE "unreachable"

\* A slip the if-chain invites: the end day of an era left out of its range.
FromAdEraExclusiveEnd(t) ==
    IF Era_start("Meiji") <= t /\ t < Era_end("Meiji") THEN "Meiji"
    ELSE IF Era_start("Taisho") <= t /\ t < Era_end("Taisho") THEN "Taisho"
    ELSE IF Era_start("Showa") <= t /\ t < Era_end("Showa") THEN "Showa"
    ELSE IF Era_start("Heisei") <= t /\ t < Era_end("Heisei") THEN "Heisei"
    ELSE IF Era_start("Reiwa") <= t THEN "Reiwa"
    ELSE "unreachable"

FromAdEra(t) == FromAdEraFirstMatch(t)

\* A slip: the year counted from the era's first year, so from zero.
Wareki_from_ad_ZeroBased(year, month, day) ==
    LET t == DateKey(year, month, day)
        era == FromAdEra(t)
    IN  IF era = "unreachable" THEN Panic
        ELSE <<"Ok", Wareki_new(era, year - (Era_start_year(era) + 1))>>

Wareki_from_ad(year, month, day) ==
    LET t == DateKey(year, month, day)
        era == FromAdEra(t)
    IN  IF era = "unreachable" THEN Panic
        ELSE <<"Ok", Wareki_new(era, year - Era_start_year(era))>>

\* A slip: the era's first year taken as the base, not the year before it.
Wareki_to_ad_FromFirstYear(w) == Era_start_year(w.era) + 1 + w.year

Wareki_to_ad(w) == Era_start_year(w.era) + w.year

Date_gen_wareki_year(d) == Wareki_from_ad(d.year, d.month, d.day)

-----------------------------------------------------------------------------
(* The six ministry periods: members in declaration order, to_int, from_int *)

M1Ministry ==
    <<"CabinetOrder",
      "ImperialHouseholdOrdinance",
      "GreaterEastAsiaMinisterialOrdinance",
      "MinistryOfTheInteriorOrdinance",
      "MinistryOfJusticeOrdinance",
      "MinistryOfForeignAffairsOrdinance",
      "MinistryOfFinanceOrdinance",
      "MinistryOfEducationOrdinance",
      "MinistryOfHealthAndWelfareOrdinance",
      "MinistryOfAgricultureAndCommerceOrdinance",
      "MinistryOfCommerceAndIndustryOrdinance",
      "RailwayMinisterialOrdinance",
      "MinistryOfCommunicationsOrdinance",
      "MinistryOfTheArmyOrdinanceA",
      "NavyMinisterialOrdinance",
      "MinistryOfTheArmyOrdinanceB",
      "MinistryOfAgricultureAndForestryOrdinance",
      "MinistryOfLandDevelopmentOrdinanceA",
      "MinistryOfLandDevelopmentOrdinanceB",
      "MinistryOfAgricultureAndCommerceOrdinanceTemporary",
      "MinistryOfJusticeOrdinanceHei">>

M1Ministry_to_int(m) ==
    CASE m = "CabinetOrder" -> 1
      [] m = "ImperialHouseholdOrdinance" -> 2
      [] m = "GreaterEastAsiaMinisterialOrdinance" -> 3
      [] m = "MinistryOfTheInteriorOrdinance" -> 4
      [] m = "MinistryOfJusticeOrdinance" -> 5
      [] m = "MinistryOfForeignAffairsOrdinance" -> 6
      [] m = "MinistryOfFinanceOrdinance" -> 7
      [] m = "MinistryOfEducationOrdinance" -> 8
      [] m = "MinistryOfHealthAndWelfareOrdinance" -> 9
      [] m = "MinistryOfAgricultureAndCommerceOrdinance" -> 10
      [] m = "MinistryOfCommerceAndIndustryOrdinance" -> 11
      [] m = "RailwayMinisterialOrdinance" -> 12
      [] m = "MinistryOfCommunicationsOrdinance" -> 13
      [] m = "MinistryOfTheArmyOrdinanceA" -> 14
      [] m = "NavyMinisterialOrdinance" -> 15
      [] m = "MinistryOfTheArmyOrdinanceB" -> 16
      [] m = "MinistryOfAgricultureAndForestryOrdinance" -> 17
      [] m = "MinistryOfLandDevelopmentOrdinanceA" -> 18
      [] m = "MinistryOfLandDevelopmentOrdinanceB" -> 19
      [] m = "MinistryOfAgricultureAndCommerceOrdinanceTemporary" -> 20
      [] m = "MinistryOfJusticeOrdinanceHei" -> 21

M1Ministry_from_int(n) ==
    CASE n = 1 -> Some("CabinetOrder")
      [] n = 2 -> Some("ImperialHouseholdOrdinance")
      [] n = 3 -> Some("GreaterEastAsiaMinisterialOrdinance")
      [] n = 4 -> Some("MinistryOfTheInteriorOrdinance")
      [] n = 5 -> Some("MinistryOfJusticeOrdinance")
      [] n = 6 -> Some("MinistryOfForeignAffairsOrdinance")
      [] n = 7 -> Some("MinistryOfFinanceOrdinance")
      [] n = 8 -> Some("MinistryOfEducationOrdinance")
      [] n = 9 -> Some("MinistryOfHealthAndWelfareOrdinance")
      [] n = 10 -> Some("MinistryOfAgricultureAndCommerceOrdinance")
      [] n = 11 -> Some("MinistryOfCommerceAndIndustryOrdinance")
      [] n = 12 -> Some("RailwayMinisterialOrdinance")
      [] n = 13 -> Some("MinistryOfCommunicationsOrdinance")
      [] n = 14 -> Some("MinistryOfTheArmyOrdinanceA")
      [] n = 15 -> Some("NavyMinisterialOrdinance")
      [] n = 16 -> Some("MinistryOfTheArmyOrdinanceB")
      [] n = 17 -> Some("MinistryOfAgricultureAndForestryOrdinance")
      [] n = 18 -> Some("MinistryOfLandDevelopmentOrdinanceA")
      [] n = 19 -> Some("MinistryOfLandDevelopmentOrdinanceB")
      [] n = 20 -> Some("MinistryOfAgricultureAndCommerceOrdinanceTemporary")
      [] n = 21 -> Some("MinistryOfJusticeOrdinanceHei")
      [] OTHER -> None

M2Ministry ==
    <<"CabinetOrder",
      "ImperialHouseholdOrdinance",
      "GreaterEastAsiaMinisterialOrdinance",
      "MinistryOfTheInteriorOrdinance",
      "MinistryOfJusticeOrdinance",
      "MinistryOfForeignAffairsOrdinance",
      "MinistryOfFinanceOrdinance",
      "MinistryOfEducationOrdinance",
      "MinistryOfHealthAndWelfareOrdinance",
      "MinistryOfAgricultureAndCommerceOrdinance",
      "MinistryOfCommerceAndIndustryOrdinance",
      "MinistryOfTransportOrdinance",
      "MinistryOfTransportAndCommunicationsOrdinance",
      "MinistryOfTheArmyOrdinanceA",
      "NavyMinisterialOrdinance",
      "OrdinanceOfTheMinistryOfMunitions",
      "MinistryOfAgricultureAndForestryOrdinance">>

M2Ministry_to_int(m) ==
    CASE m = "CabinetOrder" -> 1
      [] m = "ImperialHouseholdOrdinance" -> 2
      [] m = "GreaterEastAsiaMinisterialOrdinance" -> 3
      [] m = "MinistryOfTheInteriorOrdinance" -> 4
      [] m = "MinistryOfJusticeOrdinance" -> 5
      [] m = "MinistryOfForeignAffairsOrdinance" -> 6
      [] m = "MinistryOfFinanceOrdinance" -> 7
      [] m = "MinistryOfEducationOrdinance" -> 8
      [] m = "MinistryOfHealthAndWelfareOrdinance" -> 9
      [] m = "MinistryOfAgricultureAndCommerceOrdinance" -> 10
      [] m = "MinistryOfCommerceAndIndustryOrdinance" -> 11
      [] m = "MinistryOfTransportOrdinance" -> 12
      [] m = "MinistryOfTransportAndCommunicationsOrdinance" -> 13
      [] m = "MinistryOfTheArmyOrdinanceA" -> 14
      [] m = "NavyMinisterialOrdinance" -> 15
      [] m = "OrdinanceOfTheMinistryOfMunitions" -> 16
      [] m = "MinistryOfAgricultureAndForestryOrdinance" -> 17

M2Ministry_from_int(n) ==
    CASE n = 1 -> Some("CabinetOrder")
      [] n = 2 -> Some("ImperialHouseholdOrdinance")
      [] n = 3 -> Some("GreaterEastAsiaMinisterialOrdinance")
      [] n = 4 -> Some("MinistryOfTheInteriorOrdinance")
      [] n = 5 -> Some("MinistryOfJusticeOrdinance")
      [] n = 6 -> Some("MinistryOfForeignAffairsOrdinance")
      [] n = 7 -> Some("MinistryOfFinanceOrdinance")
      [] n = 8 -> Some("MinistryOfEducationOrdinance")
      [] n = 9 -> Some("MinistryOfHealthAndWelfareOrdinance")
      [] n = 10 -> Some("MinistryOfAgricultureAndCommerceOrdinance")
      [] n = 11 -> Some("MinistryOfCommerceAndIndustryOrdinance")
      [] n = 12 -> Some("MinistryOfTransportOrdinance")
      [] n = 13 -> Some("MinistryOfTransportAndCommunicationsOrdinance")
      [] n = 14 -> Some("MinistryOfTheArmyOrdinanceA")
      [] n = 15 -> Some("NavyMinisterialOrdinance")
      [] n = 16 -> Some("OrdinanceOfTheMinistryOfMunitions")
      [] n = 17 -> Some("MinistryOfAgricultureAndForestryOrdinance")
      [] OTHER -> None

M3Ministry ==
    <<"CabinetOrder",
      "ImperialHouseholdOrdinance",
      "EconomicStabilityHeadquartersOrdinance",
      "MinistryOfTheInteriorOrdinance",
      "MinistryOfJusticeOrdinance",
      "MinistryOfForeignAffairsOrdinance",
      "MinistryOfFinanceOrdinance",
      "MinistryOfEducationOrdinance",
      "MinistryOfHealthAndWelfareOrdinance",
      "MinistryOfAgricultureAndForestryOrdinance",
      "MinistryOfCommerceAndIndustryOrdinance",
      "MinistryOfTransportOrdinance",
      "MinistryOfCommunicationsOrdinance",
      "FirstMinisterialOrdinanceForDemobilization",
      "SecondMinisterialOrdinanceForDemobilization",
      "PriceAgencyOrdinance",
      "CentralLaborRelationsCommissionRules">>

M3Ministry_to_int(m) ==
    CASE m = "CabinetOrder" -> 1
      [] m = "ImperialHouseholdOrdinance" -> 2
      [] m = "EconomicStabilityHeadquartersOrdinance" -> 3
      [] m = "MinistryOfTheInteriorOrdinance" -> 4
      [] m = "MinistryOfJusticeOrdinance" -> 5
      [] m = "MinistryOfForeignAffairsOrdinance" -> 6
      [] m = "MinistryOfFinanceOrdinance" -> 7
      [] m = "MinistryOfEducationOrdinance" -> 8
      [] m = "MinistryOfHealthAndWelfareOrdinance" -> 9
      [] m = "MinistryOfAgricultureAndForestryOrdinance" -> 10
      [] m = "MinistryOfCommerceAndIndustryOrdinance" -> 11
      [] m = "MinistryOfTransportOrdinance" -> 12
      [] m = "MinistryOfCommunicationsOrdinance" -> 13
      [] m = "FirstMinisterialOrdinanceForDemobilization" -> 14
      [] m = "SecondMinisterialOrdinanceForDemobilization" -> 15
      [] m = "PriceAgencyOrdinance" -> 16
      [] m = "CentralLaborRelationsCommissionRules" -> 21

M3Ministry_from_int(n) ==
    CASE n = 1 -> Some("CabinetOrder")
      [] n = 2 -> Some("ImperialHouseholdOrdinance")
      [] n = 3 -> Some("EconomicStabilityHeadquartersOrdinance")
      [] n = 4 -> Some("MinistryOfTheInteriorOrdinance")
      [] n = 5 -> Some("MinistryOfJusticeOrdinance")
      [] n = 6 -> Some("MinistryOfForeignAffairsOrdinance")
      [] n = 7 -> Some("MinistryOfFinanceOrdinance")
      [] n = 8 -> Some("MinistryOfEducationOrdinance")
      [] n = 9 -> Some("MinistryOfHealthAndWelfareOrdinance")
      [] n = 10 -> Some("MinistryOfAgricultureAndForestryOrdinance")
      [] n = 11 -> Some("MinistryOfCommerceAndIndustryOrdinance")
      [] n = 12 -> Some("MinistryOfTransportOrdinance")
      [] n = 13 -> Some("MinistryOfCommunicationsOrdinance")
      [] n = 14 -> Some("FirstMinisterialOrdinanceForDemobilization")
      [] n = 15 -> Some("SecondMinisterialOrdinanceForDemobilization")
      [] n = 16 -> Some("PriceAgencyOrdinance")
      [] n = 21 -> Some("CentralLaborRelationsCommissionRules")
      [] OTHER -> None

M4Ministry ==
    <<"LegalAffairsAgencyOrdinance",
      "PrimeMinistersOfficeOrdinance",
      "EconomicStabilityHeadquartersOrdinance",
      "MinistryOfTheInteriorOrdinance",
      "MinistryOfJusticeOrdinance",
      "MinistryOfForeignAffairsOrdinance",
      "MinistryOfFinanceOrdinance",
      "MinistryOfEducationOrdinance",
      "MinistryOfHealthAndWelfareOrdinance",
      "MinistryOfAgricultureAndForestryOrdinance",
      "MinistryOfInternationalTradeAndIndustryOrdinance",
      "MinistryOfTransportOrdinance",
      "MinistryOfCommunicationsOrdinance",
      "MinistryOfLaborOrdinance",
      "MinistryOfConstructionOrdinance",
      "PriceAgencyOrdinance",
      "MinistryOfCommerceAndIndustryOrdinance",
      "CentralLaborRelationsCommissionRules",
      "FairTradeCommissionRules",
      "NationalPublicSafetyCommissionRegulations">>

M4Ministry_to_int(m) ==
    CASE m = "LegalAffairsAgencyOrdinance" -> 1
      [] m = "PrimeMinistersOfficeOrdinance" -> 2
      [] m = "EconomicStabilityHeadquartersOrdinance" -> 3
      [] m = "MinistryOfTheInteriorOrdinance" -> 4
      [] m = "MinistryOfJusticeOrdinance" -> 5
      [] m = "MinistryOfForeignAffairsOrdinance" -> 6
      [] m = "MinistryOfFinanceOrdinance" -> 7
      [] m = "MinistryOfEducationOrdinance" -> 8
      [] m = "MinistryOfHealthAndWelfareOrdinance" -> 9
      [] m = "MinistryOfAgricultureAndForestryOrdinance" -> 10
      [] m = "MinistryOfInternationalTradeAndIndustryOrdinance" -> 11
      [] m = "MinistryOfTransportOrdinance" -> 12
      [] m = "MinistryOfCommunicationsOrdinance" -> 13
      [] m = "MinistryOfLaborOrdinance" -> 14
      [] m = "MinistryOfConstructionOrdinance" -> 15
      [] m = "PriceAgencyOrdinance" -> 16
      [] m = "MinistryOfCommerceAndIndustryOrdinance" -> 17
      [] m = "CentralLaborRelationsCommissionRules" -> 21
      [] m = "FairTradeCommissionRules" -> 22
      [] m = "NationalPublicSafetyCommissionRegulations" -> 23

M4Ministry_from_int(n) ==
    CASE n = 1 -> Some("LegalAffairsAgencyOrdinance")
      [] n = 2 -> Some("PrimeMinistersOfficeOrdinance")
      [] n = 3 -> Some("EconomicStabilityHeadquartersOrdinance")
      [] n = 4 -> Some("MinistryOfTheInteriorOrdinance")
      [] n = 5 -> Some("MinistryOfJusticeOrdinance")
      [] n = 6 -> Some("MinistryOfForeignAffairsOrdinance")
      [] n = 7 -> Some("MinistryOfFinanceOrdinance")
      [] n = 8 -> Some("MinistryOfEducationOrdinance")
      [] n = 9 -> Some("MinistryOfHealthAndWelfareOrdinance")
      [] n = 10 -> Some("MinistryOfAgricultureAndForestryOrdinance")
      [] n = 11 -> Some("MinistryOfInternationalTradeAndIndustryOrdinance")
      [] n = 12 -> Some("MinistryOfTransportOrdinance")
      [] n = 13 -> Some("MinistryOfCommunicationsOrdinance")
      [] n = 14 -> Some("MinistryOfLaborOrdinance")
      [] n = 15 -> Some("MinistryOfConstructionOrdinance")
      [] n = 16 -> Some("PriceAgencyOrdinance")
      [] n = 17 -> Some("MinistryOfCommerceAndIndustryOrdinance")
      [] n = 21 -> Some("CentralLaborRelationsCommissionRules")
      [] n = 22 -> Some("FairTradeCommissionRules")
      [] n = 23 -> Some("NationalPublicSafetyCommissionRegulations")
      [] OTHER -> None

M5Ministry ==
    <<"LegalAffairsAgencyOrdinance",
      "PrimeMinistersOfficeOrdinance",
      "EconomicStabilityHeadquartersOrdinance",
      "MinistryOfHomeAffairsOrdinance",
      "MinistryOfJusticeOrdinance",
      "MinistryOfForeignAffairsOrdinance",
      "MinistryOfFinanceOrdinance",
      "MinistryOfEducationOrdinance",
      "MinistryOfHealthAndWelfareOrdinance",
      "MinistryOfAgricultureAndForestryAndFisheriesOrdinance",
      "MinistryOfInternationalTradeAndIndustryOrdinance",
      "MinistryOfTransportOrdinance",
      "MinistryOfPostsAndTelecommunicationsOrdinance",
      "MinistryOfLaborOrdinance",
      "MinistryOfConstructionOrdinance",
      "PriceAgencyOrdinance",
      "MinistryOfAgricultureAndForestryOrdinance",
      "TelecommunicationsMinisterialOrdinance",
      "CentralMinistriesAndAgenciesReformPromotionHeadquartersOrdinance",
      "RadioRegulatoryCommissionRules",
      "CentralLaborRelationsCommissionRules",
      "FairTradeCommissionRules",
      "NationalPublicSafetyCommissionRegulations",
      "PollutionAdjustmentCommitteeRules",
      "PublicSafetyReviewCommitteeRules">>

M5Ministry_to_int(m) ==
    CASE m = "LegalAffairsAgencyOrdinance" -> 1
      [] m = "PrimeMinistersOfficeOrdinance" -> 2
      [] m = "EconomicStabilityHeadquartersOrdinance" -> 3
      [] m = "MinistryOfHomeAffairsOrdinance" -> 4
      [] m = "MinistryOfJusticeOrdinance" -> 5
      [] m = "MinistryOfForeignAffairsOrdinance" -> 6
      [] m = "MinistryOfFinanceOrdinance" -> 7
      [] m = "MinistryOfEducationOrdinance" -> 8
      [] m = "MinistryOfHealthAndWelfareOrdinance" -> 9
      [] m = "MinistryOfAgricultureAndForestryAndFisheriesOrdinance" -> 10
      [] m = "MinistryOfInternationalTradeAndIndustryOrdinance" -> 11
      [] m = "MinistryOfTransportOrdinance" -> 12
      [] m = "MinistryOfPostsAndTelecommunicationsOrdinance" -> 13
      [] m = "MinistryOfLaborOrdinance" -> 14
      [] m = "MinistryOfConstructionOrdinance" -> 15
      [] m = "PriceAgencyOrdinance" -> 16
      [] m = "MinistryOfAgricultureAndForestryOrdinance" -> 17
      [] m = "TelecommunicationsMinisterialOrdinance" -> 18
      [] m = "CentralMinistriesAndAgenciesReformPromotionHeadquartersOrdinance" -> 19
      [] m = "RadioRegulatoryCommissionRules" -> 20
      [] m = "CentralLaborRelationsCommissionRules" -> 21
      [] m = "FairTradeCommissionRules" -> 22
      [] m = "NationalPublicSafetyCommissionRegulations" -> 23
      [] m = "PollutionAdjustmentCommitteeRules" -> 24
      [] m = "PublicSafetyReviewCommitteeRules" -> 25

M5Ministry_from_int(n) ==
    CASE n = 1 -> Some("LegalAffairsAgencyOrdinance")
      [] n = 2 -> Some("PrimeMinistersOfficeOrdinance")
      [] n = 3 -> Some("EconomicStabilityHeadquartersOrdinance")
      [] n = 4 -> Some("MinistryOfHomeAffairsOrdinance")
      [] n = 5 -> Some("MinistryOfJusticeOrdinance")
      [] n = 6 -> Some("MinistryOfForeignAffairsOrdinance")
      [] n = 7 -> Some("MinistryOfFinanceOrdinance")
      [] n = 8 -> Some("MinistryOfEducationOrdinance")
      [] n = 9 -> Some("MinistryOfHealthAndWelfareOrdinance")
      [] n = 10 -> Some("MinistryOfAgricultureAndForestryAndFisheriesOrdinance")
      [] n = 11 -> Some("MinistryOfInternationalTradeAndIndustryOrdinance")
      [] n = 12 -> Some("MinistryOfTransportOrdinance")
      [] n = 13 -> Some("MinistryOfPostsAndTelecommunicationsOrdinance")
      [] n = 14 -> Some("MinistryOfLaborOrdinance")
      [] n = 15 -> Some("MinistryOfConstructionOrdinance")
      [] n = 16 -> Some("PriceAgencyOrdinance")
      [] n = 17 -> Some("MinistryOfAgricultureAndForestryOrdinance")
      [] n = 18 -> Some("TelecommunicationsMinisterialOrdinance")
      [] n = 19 -> Some("CentralMinistriesAndAgenciesReformPromotionHeadquartersOrdinance")
      [] n = 20 -> Some("RadioRegulatoryCommissionRules")
      [] n = 21 -> Some("CentralLaborRelationsCommissionRules")
      [] n = 22 -> Some("FairTradeCommissionRules")
      [] n = 23 -> Some("NationalPublicSafetyCommissionRegulations")
      [] n = 24 -> Some("PollutionAdjustmentCommitteeRules")
      [] n = 25 -> Some("PublicSafetyReviewCommitteeRules")
      [] OTHER -> None

M6Ministry ==
    <<"CabinetSecretariatOrdinance",
      "PrimeMinistersOfficeOrdinance",
      "ReconstructionAgencyOrdinance",
      "MinistryOfHomeAffairsOrdinance",
      "MinistryOfJusticeOrdinance",
      "MinistryOfForeignAffairsOrdinance",
      "MinistryOfFinanceOrdinance",
      "MinistryOfEducationAndCultureAndSportsAndScienceAndTechnologyOrdinance",
      "MinistryOfHealthAndLaborAndWelfareOrdinance",
      "MinistryOfAgricultureAndForestryAndFisheriesOrdinance",
      "MinistryOfEconomyAndTradeAndIndustryOrdinance",
      "MinistryOfLandAndInfrastructureAndTransportAndTourismOrdinance",
      "MinistryOfTheEnvironmentOrdinance",
      "MinistryOfDefenseOrdinance",
      "DigitalAgencyOrdinance",
      "SpecificPersonalInformationProtectionCommissionRules",
      "JapanTransportSafetyBoardRegulations",
      "NuclearRegulationAuthorityRegulations",
      "CentralLaborRelationsCommissionRules",
      "FairTradeCommissionRules",
      "NationalPublicSafetyCommissionRegulations",
      "PollutionAdjustmentCommitteeRules",
      "PublicSafetyReviewCommitteeRules",
      "CasinoManagementCommitteeRules">>

M6Ministry_to_int(m) ==
    CASE m = "CabinetSecretariatOrdinance" -> 1
      [] m = "PrimeMinistersOfficeOrdinance" -> 2
      [] m = "ReconstructionAgencyOrdinance" -> 3
      [] m = "MinistryOfHomeAffairsOrdinance" -> 4
      [] m = "MinistryOfJusticeOrdinance" -> 5
      [] m = "MinistryOfForeignAffairsOrdinance" -> 6
      [] m = "MinistryOfFinanceOrdinance" -> 7
      [] m = "MinistryOfEducationAndCultureAndSportsAndScienceAndTechnologyOrdinance" -> 8
      [] m = "MinistryOfHealthAndLaborAndWelfareOrdinance" -> 9
      [] m = "MinistryOfAgricultureAndForestryAndFisheriesOrdinance" -> 10
      [] m = "MinistryOfEconomyAndTradeAndIndustryOrdinance" -> 11
      [] m = "MinistryOfLandAndInfrastructureAndTransportAndTourismOrdinance" -> 12
      [] m = "MinistryOfTheEnvironmentOrdinance" -> 13
      [] m = "MinistryOfDefenseOrdinance" -> 14
      [] m = "DigitalAgencyOrdinance" -> 15
      [] m = "SpecificPersonalInformationProtectionCommissionRules" -> 18
      [] m = "JapanTransportSafetyBoardRegulations" -> 19
      [] m = "NuclearRegulationAuthorityRegulations" -> 20
      [] m = "CentralLaborRelationsCommissionRules" -> 21
      [] m = "FairTradeCommissionRules" -> 22
      [] m = "NationalPublicSafetyCommissionRegulations" -> 23
      [] m = "PollutionAdjustmentCommitteeRules" -> 24
      [] m = "PublicSafetyReviewCommitteeRules" -> 25
      [] m = "CasinoManagementCommitteeRules" -> 26

M6Ministry_from_int(n) ==
    CASE n = 1 -> Some("CabinetSecretariatOrdinance")
      [] n = 2 -> Some("PrimeMinistersOfficeOrdinance")
      [] n = 3 -> Some("ReconstructionAgencyOrdinance")
      [] n = 4 -> Some("MinistryOfHomeAffairsOrdinance")
      [] n = 5 -> Some("MinistryOfJusticeOrdinance")
      [] n = 6 -> Some("MinistryOfForeignAffairsOrdinance")
      [] n = 7 -> Some("MinistryOfFinanceOrdinance")
      [] n = 8 -> Some("MinistryOfEducationAndCultureAndSportsAndScienceAndTechnologyOrdinance")
      [] n = 9 -> Some("MinistryOfHealthAndLaborAndWelfareOrdinance")
      [] n = 10 -> Some("MinistryOfAgricultureAndForestryAndFisheriesOrdinance")
      [] n = 11 -> Some("MinistryOfEconomyAndTradeAndIndustryOrdinance")
      [] n = 12 -> Some("MinistryOfLandAndInfrastructureAndTransportAndTourismOrdinance")
      [] n = 13 -> Some("MinistryOfTheEnvironmentOrdinance")
      [] n = 14 -> Some("MinistryOfDefenseOrdinance")
      [] n = 15 -> Some("DigitalAgencyOrdinance")
      [] n = 18 -> Some("SpecificPersonalInformationProtectionCommissionRules")
      [] n = 19 -> Some("JapanTransportSafetyBoardRegulations")
      [] n = 20 -> Some("NuclearRegulationAuthorityRegulations")
      [] n = 21 -> Some("CentralLaborRelationsCommissionRules")
      [] n = 22 -> Some("FairTradeCommissionRules")
      [] n = 23 -> Some("NationalPublicSafetyCommissionRegulations")
      [] n = 24 -> Some("PollutionAdjustmentCommitteeRules")
      [] n = 25 -> Some("PublicSafetyReviewCommitteeRules")
      [] n = 26 -> Some("CasinoManagementCommitteeRules")
      [] OTHER -> None

-----------------------------------------------------------------------------
(* Institution *)

Institution ==
    <<"BoardOfAudit",
      "CoastGuard",
      "ScienceCouncilOfJapan",
      "LandAdjustmentCommittee",
      "FinancialReconstructionCommittee",
      "MetropolitanAreaDevelopmentCommittee",
      "LocalFinanceCommittee",
      "BarExaminationManagementCommittee",
      "CertifiedPublicAccountantManagementCommittee",
      "ForeignInvestmentCommittee",
      "CulturalPropertiesProtectionCommittee",
      "JapaneseNationalCommissionForUNESCO",
      "SupremeCourt",
      "HouseOfRepresentatives",
      "HouseOfCouncilors",
      "SeafarersCentralLaborCommittee",
      "RadioRegulatoryCommission",
      "CasinoManagementCommittee">>

Institution_to_int(i) ==
    CASE i = "BoardOfAudit" -> 1
      [] i = "CoastGuard" -> 2
      [] i = "ScienceCouncilOfJapan" -> 3
      [] i = "LandAdjustmentCommittee" -> 4
      [] i = "FinancialReconstructionCommittee" -> 5
      [] i = "MetropolitanAreaDevelopmentCommittee" -> 6
      [] i = "LocalFinanceCommittee" -> 7
      [] i = "BarExaminationManagementCommittee" -> 8
      [] i = "CertifiedPublicAccountantManagementCommittee" -> 9
      [] i = "ForeignInvestmentCommittee" -> 10
      [] i = "CulturalPropertiesProtectionCommittee" -> 11
      [] i = "JapaneseNationalCommissionForUNESCO" -> 12
      [] i = "SupremeCourt" -> 13
      [] i = "HouseOfRepresentatives" -> 14
      [] i = "HouseOfCouncilors" -> 15
      [] i = "SeafarersCentralLaborCommittee" -> 16
      [] i = "RadioRegulatoryCommission" -> 18
      [] i = "CasinoManagementCommittee" -> 19

\* A slip: the table without the arm for 17.
Institution_from_int_NoAlias(n) ==
    IF n # 17 /\ \E i \in 1..Len(Institution) : Institution_to_int(Institution[i]) = n
    THEN Some(Institution[CHOOSE i \in 1..Len(Institution) : Institution_to_int(Institution[i]) = n])
    ELSE None

Institution_from_int(n) ==
    CASE n = 1 -> Some("BoardOfAudit")
      [] n = 2 -> Some("CoastGuard")
      [] n = 3 -> Some("ScienceCouncilOfJapan")
      [] n = 4 -> Some("LandAdjustmentCommittee")
      [] n = 5 -> Some("FinancialReconstructionCommittee")
      [] n = 6 -> Some("MetropolitanAreaDevelopmentCommittee")
      [] n = 7 -> Some("LocalFinanceCommittee")
      [] n = 8 -> Some("BarExaminationManagementCommittee")
      [] n = 9 -> Some("CertifiedPublicAccountantManagementCommittee")
      [] n = 10 -> Some("ForeignInvestmentCommittee")
      [] n = 11 -> Some("CulturalPropertiesProtectionCommittee")
      [] n = 12 -> Some("JapaneseNationalCommissionForUNESCO")
      [] n = 13 -> Some("SupremeCourt")
      [] n = 14 -> Some("HouseOfRepresentatives")
      [] n = 15 -> Some("HouseOfCouncilors")
      [] n = 16 -> Some("SeafarersCentralLaborCommittee")
      [] n = 17 -> Some("BarExaminationManagementCommittee")
      [] n = 18 -> Some("RadioRegulatoryCommission")
      [] n = 19 -> Some("CasinoManagementCommittee")
      [] OTHER -> None

-----------------------------------------------------------------------------
(* trait MinistryContents, dispatched on the period 1..6 *)

Periods == 1..6

PeriodMembers(p) ==
    CASE p = 1 -> M1Ministry
      [] p = 2 -> M2Ministry
      [] p = 3 -> M3Ministry
      [] p = 4 -> M4Ministry
      [] p = 5 -> M5Ministry
      [] p = 6 -> M6Ministry

MemberSet(p) == {PeriodMembers(p)[i] : i \in 1..Len(PeriodMembers(p))}

\* A slip: M3's CentralLaborRelationsCommissionRules numbered on from 16
\* instead of at its own position 21.
MinistryContents_to_int_Consecutive(p, m) ==
    IF p = 3 /\ m = "CentralLaborRelationsCommissionRules" THEN 17
    ELSE CASE p = 1 -> M1Ministry_to_int(m)
           [] p = 2 -> M2Ministry_to_int(m)
           [] p = 3 -> M3Ministry_to_int(m)
           [] p = 4 -> M4Ministry_to_int(m)
           [] p = 5 -> M5Ministry_to_int(m)
           [] p = 6 -> M6Ministry_to_int(m)

MinistryContents_to_int(p, m) ==
    CASE p = 1 -> M1Ministry_to_int(m)
      [] p = 2 -> M2Ministry_to_int(m)
      [] p = 3 -> M3Ministry_to_int(m)
      [] p = 4 -> M4Ministry_to_int(m)
      [] p = 5 -> M5Ministry_to_int(m)
      [] p = 6 -> M6Ministry_to_int(m)

\* A slip: the positions counted from zero.
MinistryContents_from_int_FromZero(p, n) ==
    CASE p = 1 -> M1Ministry_from_int(n + 1)
      [] p = 2 -> M2Ministry_from_int(n + 1)
      [] p = 3 -> M3Ministry_from_int(n + 1)
      [] p = 4 -> M4Ministry_from_int(n + 1)
      [] p = 5 -> M5Ministry_from_int(n + 1)
      [] p = 6 -> M6Ministry_from_int(n + 1)

MinistryContents_from_int(p, n) ==
    CASE p = 1 -> M1Ministry_from_int(n)
      [] p = 2 -> M2Ministry_from_int(n)
      [] p = 3 -> M3Ministry_from_int(n)
      [] p = 4 -> M4Ministry_from_int(n)
      [] p = 5 -> M5Ministry_from_int(n)
      [] p = 6 -> M6Ministry_from_int(n)

-----------------------------------------------------------------------------
(* Strings, str::parse::<usize>, usize::from_str_radix and format!         *)
(* The model's strings are ASCII, so byte offsets are character offsets.   *)

DecDigits == <<"0", "1", "2", "3", "4", "5", "6", "7", "8", "9">>
HexUpper == <<"0", "1", "2", "3", "4", "5", "6", "7", "8", "9", "A", "B", "C", "D", "E", "F">>
HexLower == <<"0", "1", "2", "3", "4", "5", "6", "7", "8", "9", "a", "b", "c", "d", "e", "f">>

\* char::to_digit(radix): the value of c, or -1 when c is no digit of the radix.
ToDigit(c, radix) ==
    IF \E i \in 1..radix : HexUpper[i] = c
    THEN (CHOOSE i \in 1..radix : HexUpper[i] = c) - 1
    ELSE IF \E i \in 1..radix : HexLower[i] = c
    THEN (CHOOSE i \in 1..radix : HexLower[i] = c) - 1
    ELSE -1

RECURSIVE DigitsValue(_, _)
DigitsValue(ds, radix) ==
    IF Len(ds) = 0 THEN 0
    ELSE DigitsValue(SubSeq(ds, 1, Len(ds) - 1), radix) * radix + ToDigit(ds[Len(ds)], radix)

\* usize::from_str_radix(src, radix): empty, a lone sign and any non-digit
\* are errors; one leading '+' is accepted; '-' is no digit of an unsigned
\* type.  (Fields of the model are at most 8 digits: no overflow.)
FromStrRadixSigned(src, radix) ==
    IF Len(src) = 0 THEN None
    ELSE IF Len(src) = 1 /\ src[1] \in {"+", "-"} THEN None
    ELSE LET digits == IF src[1] = "+" THEN Tail(src) ELSE src
         IN  IF \A i \in 1..Len(digits) : ToDigit(digits[i], radix) >= 0
             THEN Some(DigitsValue(digits, radix))
             ELSE None

usize_from_str_radix(src, radix) == FromStrRadixSigned(src, radix)

\* str::parse::<usize>()
parse_usize(src) == usize_from_str_radix(src, 10)

RECURSIVE ToDigits(_, _)
ToDigits(n, radix) ==
    IF n < radix THEN <<HexUpper[n + 1]>>
    ELSE ToDigits(n \div radix, radix) \o <<HexUpper[(n % radix) + 1]>>

RECURSIVE Zeros(_)
Zeros(k) == IF k <= 0 THEN <<>> ELSE <<"0">> \o Zeros(k - 1)

\* format!("{n:0w}") / "{n:0wX}" / "{n:0wb}": w is a minimum width, a wider
\* number is written in full.
FormatPadded(n, w, radix) ==
    LET ds == ToDigits(n, radix) IN Zeros(w - Len(ds)) \o ds

\* A slip: the zero flag forgotten, the number written without padding.
FormatUnpadded(n, w, radix) == ToDigits(n, radix)

Format(n, w, radix) == FormatPadded(n, w, radix)

\* &s[a..=b] aborts unless b < s.len()
CanSlice(s, b) == b < Len(s)
Slice(s, a, b) == SubSeq(s, a + 1, b + 1)

-----------------------------------------------------------------------------
(* MinistryContents::to_id_str / from_id_str and enum Ministry *)

RECURSIVE BitOr(_, _)
BitOr(a, b) ==
    IF a = 0 THEN b
    ELSE IF b = 0 THEN a
    ELSE (IF a % 2 = 1 \/ b % 2 = 1 THEN 1 ELSE 0) + 2 * BitOr(a \div 2, b \div 2)

RECURSIVE MaskSum(_, _)
\* A slip: the bits added instead of or-ed.
MaskSum(p, l) ==
    IF Len(l) = 0 THEN 0
    ELSE MaskSum(p, SubSeq(l, 1, Len(l) - 1)) + 2 ^ (MinistryContents_to_int(p, l[Len(l)]) - 1)

RECURSIVE MaskOf(_, _)
\* the loop of to_id_str: n |= 2_u32.pow(u - 1) for every member of l
MaskOf(p, l) ==
    IF Len(l) = 0 THEN 0
    ELSE BitOr(MaskOf(p, SubSeq(l, 1, Len(l) - 1)),
               2 ^ (MinistryContents_to_int(p, l[Len(l)]) - 1))

MinistryContents_to_id_str(p, l) == Format(MaskOf(p, l), 7, 16)

RECURSIVE ScanBits(_, _, _, _)
\* the loop of from_id_str from character index i on, v the members so far
ScanBits(p, byte_s, i, v) ==
    IF i >= Len(byte_s) THEN <<"Ok", v>>
    ELSE LET c == byte_s[i + 1] IN
         IF c = "1" THEN
             LET n == 28 - i
                 t == MinistryContents_from_int(p, n)
             IN  IF IsSome(t) THEN ScanBits(p, byte_s, i + 1, Append(v, t[2]))
                 ELSE <<"Err", <<"unexpected flag", n>>>>
         ELSE IF c = "0" THEN ScanBits(p, byte_s, i + 1, v)
         ELSE <<"Err", <<"unexpected char", c>>>>

RECURSIVE ScanBitsLowFirst(_, _, _, _)
\* A slip: character index i taken for bit position i + 1.
ScanBitsLowFirst(p, byte_s, i, v) ==
    IF i >= Len(byte_s) THEN <<"Ok", v>>
    ELSE LET c == byte_s[i + 1] IN
         IF c = "1" THEN
             LET n == i + 1
                 t == MinistryContents_from_int(p, n)
             IN  IF IsSome(t) THEN ScanBitsLowFirst(p, byte_s, i + 1, Append(v, t[2]))
                 ELSE <<"Err", <<"unexpected flag", n>>>>
         ELSE IF c = "0" THEN ScanBitsLowFirst(p, byte_s, i + 1, v)
         ELSE <<"Err", <<"unexpected char", c>>>>

MinistryContents_from_id_str_LowFirst(p, byte_s) == ScanBitsLowFirst(p, byte_s, 0, <<>>)

RECURSIVE ScanBitsSkipUnowned(_, _, _, _)
\* A slip: a '1' at a position no member owns passed over.
ScanBitsSkipUnowned(p, byte_s, i, v) ==
    IF i >= Len(byte_s) THEN <<"Ok", v>>
    ELSE LET c == byte_s[i + 1] IN
         IF c = "1" THEN
             LET t == MinistryContents_from_int(p, 28 - i)
             IN  ScanBitsSkipUnowned(p, byte_s, i + 1, IF IsSome(t) THEN Append(v, t[2]) ELSE v)
         ELSE IF c = "0" THEN ScanBitsSkipUnowned(p, byte_s, i + 1, v)
         ELSE <<"Err", <<"unexpected char", c>>>>

MinistryContents_from_id_str_SkipUnowned(p, byte_s) == ScanBitsSkipUnowned(p, byte_s, 0, <<>>)

MinistryContents_from_id_str(p, byte_s) == ScanBits(p, byte_s, 0, <<>>)

Ministry_new(p, l) == [period |-> p, l |-> l]

Ministry_to_id_str(m) ==
    <<"M", DecDigits[m.period + 1]>> \o MinistryContents_to_id_str(m.period, m.l)

\* one arm of the match in Ministry::from_id_str
MinistryArm(p, s) ==
    IF ~CanSlice(s, 8) THEN Panic
    ELSE LET n == usize_from_str_radix(Slice(s, 2, 8), 16) IN
         IF ~IsSome(n) THEN <<"Err", <<"unexpected string">>>>
         ELSE LET byte_s == Format(n[2], 28, 2)
                  l == MinistryContents_from_id_str(p, byte_s)
              IN  IF l[1] = "Ok" THEN <<"Ok", Ministry_new(p, l[2])>> ELSE l

Ministry_from_id_str(s) ==
    IF ~CanSlice(s, 0) THEN Panic
    ELSE IF Slice(s, 0, 0) = <<"M">> THEN
        IF ~CanSlice(s, 1) THEN Panic
        ELSE LET t == s[2] IN
             IF t \in {"1", "2", "3", "4", "5", "6"}
             THEN MinistryArm(ToDigit(t, 10), s)
             ELSE <<"Err", <<"unexpected string">>>>
    ELSE <<"Err", <<"unexpected string">>>>

-----------------------------------------------------------------------------
(* LawType *)

RippouTypes == {"Kakuhou", "Syuin", "Sanin"}
LawEfficacies == {"CabinetOrder", "Law"}
EfficacyTags == {"CabinetOrder", "ImperialOrder", "DajokanFukoku", "DajokanTasshi", "DajokanHutatsu"}

Constitution == [tag |-> "Constitution"]
Act(rippou_type, num) == [tag |-> "Act", rippou_type |-> rippou_type, num |-> num]
\* CabinetOrder, ImperialOrder, DajokanFukoku, DajokanTasshi, DajokanHutatsu
EfficacyOrder(tag, efficacy, num) == [tag |-> tag, efficacy |-> efficacy, num |-> num]
MinistryOrder(ministry, num) == [tag |-> "MinistryOrder", ministry |-> ministry, num |-> num]
Jinjin(kind, kind_serial_number, amendment_serial_number) ==
    [tag |-> "Jinjin", kind |-> kind, kind_serial_number |-> kind_serial_number,
     amendment_serial_number |-> amendment_serial_number]
Regulation(institution, num) == [tag |-> "Regulation", institution |-> institution, num |-> num]
PrimeMinisterDecision(month, day, num) ==
    [tag |-> "PrimeMinisterDecision", month |-> month, day |-> day, num |-> num]

CONSTITUTION == <<"C", "O", "N", "S", "T", "I", "T", "U", "T", "I", "O", "N">>

\* the two tag letters of the five variants that carry a LawEfficacy
EfficacyPrefix(tag) ==
    CASE tag = "CabinetOrder" -> <<"C", "O">>
      [] tag = "ImperialOrder" -> <<"I", "O">>
      [] tag = "DajokanFukoku" -> <<"D", "F">>
      [] tag = "DajokanTasshi" -> <<"D", "T">>
      [] tag = "DajokanHutatsu" -> <<"D", "H">>

LawType_to_id_str(t) ==
    CASE t.tag = "Constitution" -> CONSTITUTION
      [] t.tag = "Act" ->
            (CASE t.rippou_type = "Kakuhou" -> <<"A", "C", "0", "0", "0", "0", "0", "0", "0">>
               [] t.rippou_type = "Syuin" -> <<"A", "C", "1", "0", "0", "0", "0", "0", "0">>
               [] t.rippou_type = "Sanin" -> <<"A", "C", "0", "1", "0", "0", "0", "0", "0">>)
            \o Format(t.num, 3, 10)
      [] t.tag \in EfficacyTags ->
            EfficacyPrefix(t.tag)
            \o (CASE t.efficacy = "Law" -> <<"1", "0", "0", "0", "0", "0", "0">>
                  [] t.efficacy = "CabinetOrder" -> <<"0", "0", "0", "0", "0", "0", "0">>)
            \o Format(t.num, 3, 10)
      [] t.tag = "MinistryOrder" -> Ministry_to_id_str(t.ministry) \o Format(t.num, 3, 10)
      [] t.tag = "Jinjin" ->
            <<"R", "J", "N", "J">> \o Format(t.kind, 2, 10)
            \o Format(t.kind_serial_number, 3, 10) \o Format(t.amendment_serial_number, 3, 10)
      [] t.tag = "Regulation" ->
            <<"R">> \o Format(Institution_to_int(t.institution), 8, 10) \o Format(t.num, 3, 10)
      [] t.tag = "PrimeMinisterDecision" ->
            <<"R", "P", "M", "D">> \o Format(t.month, 2, 10) \o Format(t.day, 2, 10)
            \o Format(t.num, 4, 10)

\* let num = s[9..=11].parse::<usize>().ok()?; Some(Variant { .., num })
\* (t is the variant with its other fields set)
WithNum(s, t) ==
    IF ~CanSlice(s, 11) THEN Panic
    ELSE LET num == parse_usize(Slice(s, 9, 11)) IN
         IF IsSome(num) THEN Some([t EXCEPT !.num = num[2]]) ELSE None

\* the "AC" arm
FromIdStrAct(s) ==
    IF ~CanSlice(s, 8) THEN Panic
    ELSE LET rippou_type_s == parse_usize(Slice(s, 2, 8)) IN
         IF ~IsSome(rippou_type_s) THEN None
         ELSE IF rippou_type_s[2] = 0 THEN WithNum(s, Act("Kakuhou", 0))
         ELSE IF rippou_type_s[2] = 1000000 THEN WithNum(s, Act("Syuin", 0))
         ELSE IF rippou_type_s[2] = 100000 THEN WithNum(s, Act("Sanin", 0))
         ELSE None

\* the "CO", "IO", "DF", "DT" and "DH" arms, alike but for the variant built
FromIdStrEfficacy(tag, s) ==
    IF ~CanSlice(s, 8) THEN Panic
    ELSE LET efficacy_s == parse_usize(Slice(s, 2, 8)) IN
         IF ~IsSome(efficacy_s) THEN None
         ELSE IF efficacy_s[2] = 0
              THEN WithNum(s, EfficacyOrder(tag, "CabinetOrder", 0))
         ELSE IF efficacy_s[2] = 1000000
              THEN WithNum(s, EfficacyOrder(tag, "Law", 0))
         ELSE None

\* the "M" arm
FromIdStrMinistry(s) ==
    LET ministry == Ministry_from_id_str(s) IN
    IF ministry = Panic THEN Panic
    ELSE IF ministry[1] # "Ok" THEN None
    ELSE WithNum(s, MinistryOrder(ministry[2], 0))

\* the "RJNJ" arm
FromIdStrJinjin(s) ==
    IF ~CanSlice(s, 5) THEN Panic
    ELSE LET kind == parse_usize(Slice(s, 4, 5)) IN
    IF ~IsSome(kind) THEN None
    ELSE IF ~CanSlice(s, 8) THEN Panic
    ELSE LET kind_serial_number == parse_usize(Slice(s, 6, 8)) IN
    IF ~IsSome(kind_serial_number) THEN None
    ELSE IF ~CanSlice(s, 11) THEN Panic
    ELSE LET amendment_serial_number == parse_usize(Slice(s, 9, 11)) IN
    IF ~IsSome(amendment_serial_number) THEN None
    ELSE Some(Jinjin(kind[2], kind_serial_number[2], amendment_serial_number[2]))

\* the "RPMD" arm
FromIdStrPrimeMinisterDecision(s) ==
    IF ~CanSlice(s, 5) THEN Panic
    ELSE LET month == parse_usize(Slice(s, 4, 5)) IN
    IF ~IsSome(month) THEN None
    ELSE IF ~CanSlice(s, 7) THEN Panic
    ELSE LET day == parse_usize(Slice(s, 6, 7)) IN
    IF ~IsSome(day) THEN None
    ELSE IF ~CanSlice(s, 11) THEN Panic
    ELSE LET num == parse_usize(Slice(s, 8, 11)) IN
    IF ~IsSome(num) THEN None
    ELSE Some(PrimeMinisterDecision(month[2], day[2], num[2]))

\* the "R" arm
FromIdStrRegulation(s) ==
    IF ~CanSlice(s, 8) THEN Panic
    ELSE LET institution_s == parse_usize(Slice(s, 1, 8)) IN
    IF ~IsSome(institution_s) THEN None
    ELSE LET institution == Institution_from_int(institution_s[2]) IN
    IF ~IsSome(institution) THEN None
    ELSE WithNum(s, Regulation(institution[2], 0))

\* A slip: the one-letter "R" arm written before the "RJNJ" and "RPMD" arms.
LawType_from_id_str_RFirst(s) ==
    IF s = CONSTITUTION THEN Some(Constitution)
    ELSE IF ~CanSlice(s, 1) THEN Panic
    ELSE IF Slice(s, 0, 1) = <<"A", "C">> THEN FromIdStrAct(s)
    ELSE IF Slice(s, 0, 1) = <<"C", "O">> THEN FromIdStrEfficacy("CabinetOrder", s)
    ELSE IF Slice(s, 0, 1) = <<"I", "O">> THEN FromIdStrEfficacy("ImperialOrder", s)
    ELSE IF Slice(s, 0, 1) = <<"D", "F">> THEN FromIdStrEfficacy("DajokanFukoku", s)
    ELSE IF Slice(s, 0, 1) = <<"D", "T">> THEN FromIdStrEfficacy("DajokanTasshi", s)
    ELSE IF Slice(s, 0, 1) = <<"D", "H">> THEN FromIdStrEfficacy("DajokanHutatsu", s)
    ELSE IF Slice(s, 0, 0) = <<"M">> THEN FromIdStrMinistry(s)
    ELSE IF Slice(s, 0, 0) = <<"R">> THEN FromIdStrRegulation(s)
    ELSE IF ~CanSlice(s, 3) THEN Panic
    ELSE IF Slice(s, 0, 3) = <<"R", "J", "N", "J">> THEN FromIdStrJinjin(s)
    ELSE IF Slice(s, 0, 3) = <<"R", "P", "M", "D">> THEN FromIdStrPrimeMinisterDecision(s)
    ELSE None

LawType_from_id_str(s) ==
    IF s = CONSTITUTION THEN Some(Constitution)
    ELSE IF ~CanSlice(s, 1) THEN Panic
    ELSE IF Slice(s, 0, 1) = <<"A", "C">> THEN FromIdStrAct(s)
    ELSE IF Slice(s, 0, 1) = <<"C", "O">> THEN FromIdStrEfficacy("CabinetOrder", s)
    ELSE IF Slice(s, 0, 1) = <<"I", "O">> THEN FromIdStrEfficacy("ImperialOrder", s)
    ELSE IF Slice(s, 0, 1) = <<"D", "F">> THEN FromIdStrEfficacy("DajokanFukoku", s)
    ELSE IF Slice(s, 0, 1) = <<"D", "T">> THEN FromIdStrEfficacy("DajokanTasshi", s)
    ELSE IF Slice(s, 0, 1) = <<"D", "H">> THEN FromIdStrEfficacy("DajokanHutatsu", s)
    ELSE IF Slice(s, 0, 0) = <<"M">> THEN FromIdStrMinistry(s)
    ELSE IF ~CanSlice(s, 3) THEN Panic
    ELSE IF Slice(s, 0, 3) = <<"R", "J", "N", "J">> THEN FromIdStrJinjin(s)
    ELSE IF Slice(s, 0, 3) = <<"R", "P", "M", "D">> THEN FromIdStrPrimeMinisterDecision(s)
    ELSE IF Slice(s, 0, 0) = <<"R">> THEN FromIdStrRegulation(s)
    ELSE None

-----------------------------------------------------------------------------
(* LawId *)

LawId_new(w, law_type) == [wareki |-> w, law_type |-> law_type]

\* A slip: the year written with a minimum width of three.
LawId_to_id_str_WideYear(x) ==
    Format(Era_to_number(x.wareki.era), 1, 10) \o Format(x.wareki.year, 3, 10)
    \o LawType_to_id_str(x.law_type)

LawId_to_id_str(x) ==
    Format(Era_to_number(x.wareki.era), 1, 10) \o Format(x.wareki.year, 2, 10)
    \o LawType_to_id_str(x.law_type)

LawId_from_id_str(s) ==
    IF ~CanSlice(s, 0) THEN Panic
    ELSE LET era_n == parse_usize(Slice(s, 0, 0)) IN
    IF ~IsSome(era_n) THEN None
    ELSE LET era == Era_from_number(era_n[2]) IN
    IF ~IsSome(era) THEN None
    ELSE IF ~CanSlice(s, 2) THEN Panic
    ELSE LET year == parse_usize(Slice(s, 1, 2)) IN
    IF ~IsSome(year) THEN None
    ELSE IF ~CanSlice(s, 14) THEN Panic
    ELSE LET law_type == LawType_from_id_str(Slice(s, 3, 14)) IN
    IF law_type = Panic THEN Panic
    ELSE IF ~IsSome(law_type) THEN None
    ELSE Some(LawId_new(Wareki_new(era[2], year[2]), law_type[2]))

-----------------------------------------------------------------------------
(* Calendar pipeline: Date::new_ad(y, m, d).gen_wareki_year().to_ad() *)

FirstYear == 1868
LastYear == 2020
MaxMonth == 12
MaxDay == 31

CalendarDates ==
    {Date_new_ad(y, m, d) : y \in FirstYear..LastYear, m \in 1..MaxMonth, d \in 1..MaxDay}

InitCalendar ==
    /\ pc = "new_ad"
    /\ date \in CalendarDates
    /\ wareki = Idle
    /\ adYear = Idle
    /\ applies = Idle
    /\ otherDate = Idle /\ ordering = Idle
    /\ TextIdle /\ IdIdle /\ MinIdle /\ CodeIdle

GenWarekiYear ==
    /\ pc = "new_ad"
    /\ wareki' = Date_gen_wareki_year(date)
    /\ pc' = "gen_wareki_year"
    /\ UNCHANGED <<date, adYear, applies, otherDate, ordering, textVars, idVars, minVars, codeVars>>

ToAd ==
    /\ pc = "gen_wareki_year"
    /\ wareki[1] = "Ok"
    /\ adYear' = Wareki_to_ad(wareki[2])
    /\ pc' = "to_ad"
    /\ UNCHANGED <<date, wareki, applies, otherDate, ordering, textVars, idVars, minVars, codeVars>>

NextCalendar == GenWarekiYear \/ ToAd

SpecCalendar == InitCalendar /\ [][NextCalendar]_vars

\* The dates the calendar claims speak of: month 1..12, day 1..31, on or
\* after 1868-10-23.
CalendarDateInScope(d) ==
    /\ d.month \in 1..12
    /\ d.day \in 1..31
    /\ DateKey(d.year, d.month, d.day) >= 18681023

ErasContaining(d) == {e \in EraSet : Era_contains(e, DateKey(d.year, d.month, d.day))}

\* C5: for every date with month 1..12 and day 1..31 on or after 1868-10-23,
\* exactly one era's inclusive [start, end] range contains the date's key,
\* and Wareki::from_ad returns that era and does not reach unreachable!().
C5_ExactlyOneEra ==
    (pc = "gen_wareki_year" /\ CalendarDateInScope(date)) =>
        /\ Cardinality(ErasContaining(date)) = 1
        /\ wareki[1] = "Ok"
        /\ wareki[2].era \in ErasContaining(date)

\* The last day the code gives to Heisei, 2019-04-31, is converted to Heisei.
C5_Witness ==
    /\ pc = "gen_wareki_year"
    /\ date = Date_new_ad(2019, 4, 31)
    /\ wareki = <<"Ok", Wareki_new("Heisei", 31)>>

\* C6: for every date in scope, from_ad gives year = y - start_year(era),
\* and to_ad of the result gives y back; 1923-06-20 is Taisho 12.
C6_GregorianWarekiInverse ==
    (pc = "to_ad" /\ CalendarDateInScope(date)) =>
        /\ wareki[2].year = date.year - Era_start_year(wareki[2].era)
        /\ adYear = date.year
        /\ (date = Date_new_ad(1923, 6, 20) => wareki[2] = Wareki_new("Taisho", 12))

C6_Witness ==
    /\ pc = "to_ad"
    /\ date = Date_new_ad(1923, 6, 20)
    /\ wareki = <<"Ok", Wareki_new("Taisho", 12)>>
    /\ adYear = 1923

\* C22: every Wareki that from_ad returns for a date in scope has year >= 1,
\* and start_year + year lies between the Gregorian year of the era's start
\* and the Gregorian year of the era's end (Reiwa has no end).
C22_WarekiWithinEra ==
    (pc = "gen_wareki_year" /\ CalendarDateInScope(date)) =>
        /\ wareki[1] = "Ok"
        /\ wareki[2].year >= 1
        /\ Era_start_year(wareki[2].era) + wareki[2].year = date.year
        /\ Era_start(wareki[2].era) \div 10000
              <= Era_start_year(wareki[2].era) + wareki[2].year
        /\ wareki[2].era # "Reiwa"
              => Era_start_year(wareki[2].era) + wareki[2].year
                   <= Era_end(wareki[2].era) \div 10000

\* the first day of Showa is in Showa 1, the last of Taisho in Taisho 15
C22_Witness ==
    /\ pc = "gen_wareki_year"
    /\ date \in {Date_new_ad(1926, 12, 25), Date_new_ad(1926, 12, 24)}
    /\ date.day = 25 => wareki = <<"Ok", Wareki_new("Showa", 1)>>
    /\ date.day = 24 => wareki = <<"Ok", Wareki_new("Taisho", 15)>>

-----------------------------------------------------------------------------
(* Code tables: to_int and from_int of the six periods and of Institution  *)
(* (table 0), member first or integer first.                               *)

MaxCode == 29

Tables == {0} \cup Periods

TableMembers(p) == IF p = 0 THEN {Institution[i] : i \in 1..Len(Institution)} ELSE MemberSet(p)

Table_to_int(p, m) == IF p = 0 THEN Institution_to_int(m) ELSE MinistryContents_to_int(p, m)

Table_from_int(p, n) == IF p = 0 THEN Institution_from_int(n) ELSE MinistryContents_from_int(p, n)

InitCodes ==
    /\ period \in Tables
    /\ \/ pc = "member" /\ member \in TableMembers(period) /\ code = 0
       \/ pc = "int" /\ member = Idle /\ code \in 0..MaxCode
    /\ back = Idle
    /\ recode = 0
    /\ members = Idle /\ hexStr = Idle /\ byteStr = Idle /\ decMembers = Idle
    /\ CalIdle /\ TextIdle /\ IdIdle

ToInt ==
    /\ pc = "member"
    /\ code' = Table_to_int(period, member)
    /\ pc' = "to_int"
    /\ UNCHANGED <<member, back, recode, calVars, textVars, idVars, minVars>>

ToIntFromInt ==
    /\ pc = "to_int"
    /\ back' = Table_from_int(period, code)
    /\ pc' = "to_int_from_int"
    /\ UNCHANGED <<member, code, recode, calVars, textVars, idVars, minVars>>

FromInt ==
    /\ pc = "int"
    /\ back' = Table_from_int(period, code)
    /\ pc' = "from_int"
    /\ UNCHANGED <<member, code, recode, calVars, textVars, idVars, minVars>>

FromIntToInt ==
    /\ pc = "from_int"
    /\ IsSome(back)
    /\ recode' = Table_to_int(period, back[2])
    /\ pc' = "from_int_to_int"
    /\ UNCHANGED <<member, code, back, calVars, textVars, idVars, minVars>>

NextCodes == ToInt \/ ToIntFromInt \/ FromInt \/ FromIntToInt

SpecCodes == InitCodes /\ [][NextCodes]_vars

\* C9: in each of the six periods every member's to_int is in 1..28 and is
\* no other member's, from_int(to_int(m)) = Some(m), and to_int(m) = n
\* whenever from_int(n) = Some(m).
C9_PeriodBijection ==
    period \in Periods =>
        /\ pc = "to_int" =>
              /\ code \in 1..28
              /\ \A m2 \in MemberSet(period) \ {member} :
                    MinistryContents_to_int(period, m2) # code
        /\ pc = "to_int_from_int" => back = Some(member)
        /\ pc = "from_int_to_int" => recode = code

\* M3's CentralLaborRelationsCommissionRules, whose position 21 follows a
\* gap in the table, converts to 21 and back.
C9_Witness ==
    /\ pc = "to_int_from_int"
    /\ period = 3
    /\ code = 21
    /\ back = Some("CentralLaborRelationsCommissionRules")

\* C10: Institution::to_int and from_int are a bijection over the code
\* table: from_int(to_int(i)) = Some(i) for every institution, to_int(m) = n
\* for every n with from_int(n) = Some(m), and no two codes decode to the
\* same institution.
C10_InstitutionBijection ==
    period = 0 =>
        /\ pc = "to_int_from_int" => back = Some(member)
        /\ pc = "from_int_to_int" => recode = code
        /\ (pc = "from_int" /\ IsSome(back)) =>
              \A n2 \in (0..MaxCode) \ {code} : Institution_from_int(n2) # back

\* C11 as stated: from_int(16) and from_int(17) both return
\* BarExaminationManagementCommittee, and its to_int is 16.
C11_BarExaminationCode16 ==
    period = 0 =>
        /\ (pc = "from_int" /\ code \in {16, 17}) =>
              back = Some("BarExaminationManagementCommittee")
        /\ (pc = "to_int" /\ member = "BarExaminationManagementCommittee") => code = 16

\* C11 as the table has it: from_int(8) and from_int(17) both return
\* BarExaminationManagementCommittee, its to_int is 8, and 16 is the code of
\* SeafarersCentralLaborCommittee in both directions.
C11_BarExaminationCode8 ==
    period = 0 =>
        /\ (pc = "from_int" /\ code \in {8, 17}) =>
              back = Some("BarExaminationManagementCommittee")
        /\ (pc = "to_int" /\ member = "BarExaminationManagementCommittee") => code = 8
        /\ (pc = "from_int" /\ code = 16) => back = Some("SeafarersCentralLaborCommittee")
        /\ (pc = "to_int" /\ member = "SeafarersCentralLaborCommittee") => code = 16

\* code 17 has been decoded, to BarExaminationManagementCommittee
C11_Witness ==
    /\ period = 0
    /\ pc = "from_int"
    /\ code = 17
    /\ back = Some("BarExaminationManagementCommittee")

-----------------------------------------------------------------------------
(* Ministry mask pipeline: MinistryContents::to_id_str, then the hex digits *)
(* parsed and written in binary as Ministry::from_id_str does, then         *)
(* MinistryContents::from_id_str.                                           *)

MaxSetSize == 3
MaxListLen == 2

RECURSIVE SubsetsUpTo(_, _)
SubsetsUpTo(S, k) ==
    IF k = 0 THEN {{}}
    ELSE LET smaller == SubsetsUpTo(S, k - 1)
         IN  smaller \cup {T \cup {x} : T \in smaller, x \in S}

\* the members of S in declaration order, as a period's from_name lists them
SetToList(p, S) == SelectSeq(PeriodMembers(p), LAMBDA m : m \in S)

\* every member set of up to MaxSetSize members, in declaration order
SetLists(p) == {SetToList(p, S) : S \in SubsetsUpTo(MemberSet(p), MaxSetSize)}

\* every Vec of up to MaxListLen members: any order, repeats allowed
SeqLists(p) == UNION {[1..k -> MemberSet(p)] : k \in 0..MaxListLen}

Range(l) == {l[i] : i \in 1..Len(l)}

InitMinistry ==
    /\ pc = "members"
    /\ period \in Periods
    /\ members \in SetLists(period) \cup SeqLists(period)
    /\ hexStr = Idle
    /\ byteStr = Idle
    /\ decMembers = Idle
    /\ CalIdle /\ TextIdle /\ IdIdle /\ CodeIdle

MaskToIdStr ==
    /\ pc = "members"
    /\ hexStr' = MinistryContents_to_id_str(period, members)
    /\ pc' = "to_id_str"
    /\ UNCHANGED <<period, members, byteStr, decMembers, calVars, textVars, idVars, codeVars>>

\* let n = usize::from_str_radix(.., 16)?; let byte_s = format!("{n:028b}");
MaskToByteStr ==
    /\ pc = "to_id_str"
    /\ LET n == usize_from_str_radix(hexStr, 16)
       IN  /\ IsSome(n)
           /\ byteStr' = Format(n[2], 28, 2)
    /\ pc' = "byte_s"
    /\ UNCHANGED <<period, members, hexStr, decMembers, calVars, textVars, idVars, codeVars>>

MaskFromIdStr ==
    /\ pc = "byte_s"
    /\ decMembers' = MinistryContents_from_id_str(period, byteStr)
    /\ pc' = "from_id_str"
    /\ UNCHANGED <<period, members, hexStr, byteStr, calVars, textVars, idVars, codeVars>>

NextMinistry == MaskToIdStr \/ MaskToByteStr \/ MaskFromIdStr

SpecMinistry == InitMinistry /\ [][NextMinistry]_vars

\* C8: for each period and every non-empty set of its members, the mask
\* to_id_str produces is 7 hex digits, its 28-digit binary form decodes with
\* Ok, and the decoded members are the same set.
C8_MaskRoundTripAsSet ==
    (Len(members) > 0) =>
        /\ pc = "to_id_str" => Len(hexStr) = 7
        /\ pc = "byte_s" => Len(byteStr) = 28
        /\ pc = "from_id_str" =>
              /\ decMembers[1] = "Ok"
              /\ Range(decMembers[2]) = Range(members)

\* The three members of the test ID 505M60001024060, listed in declaration
\* order, come back highest position first.
C8_Witness ==
    /\ pc = "from_id_str"
    /\ period = 6
    /\ members = <<"ReconstructionAgencyOrdinance", "MinistryOfForeignAffairsOrdinance",
                   "MinistryOfTheEnvironmentOrdinance">>
    /\ hexStr = <<"0", "0", "0", "1", "0", "2", "4">>
    /\ decMembers = <<"Ok", <<"MinistryOfTheEnvironmentOrdinance",
                              "MinistryOfForeignAffairsOrdinance",
                              "ReconstructionAgencyOrdinance">>>>

-----------------------------------------------------------------------------
(* Encode pipeline: x.to_id_str(), then LawId::from_id_str of the result *)

MaxSmallNum == 1

\* values of a numeric field written with minimum width w: the small ones,
\* the largest that fits in w digits and the first that does not
FieldValues(w) == (0..MaxSmallNum) \cup {10 ^ w - 1, 10 ^ w}

AllWarekis == {Wareki_new(e, y) : e \in EraSet, y \in FieldValues(2)}

InstitutionSet == {Institution[i] : i \in 1..Len(Institution)}

\* every variant but MinistryOrder, every discriminator, the field values above
PlainLawTypes ==
    {Constitution}
    \cup {Act(r, n) : r \in RippouTypes, n \in FieldValues(3)}
    \cup {EfficacyOrder(t, e, n) : t \in EfficacyTags, e \in LawEfficacies, n \in FieldValues(3)}
    \cup {Jinjin(k, a, b) : k \in FieldValues(2), a \in FieldValues(3), b \in FieldValues(3)}
    \cup {Regulation(i, n) : i \in InstitutionSet, n \in FieldValues(3)}
    \cup {PrimeMinisterDecision(m, d, n) :
             m \in FieldValues(2), d \in FieldValues(2), n \in FieldValues(4)}

\* the member lists of one period: every Vec of up to MaxListLen members, in
\* any order and with repeats
MemberLists(p) == SeqLists(p)

MinistryLawTypes ==
    UNION {{MinistryOrder(Ministry_new(p, l), n) : l \in MemberLists(p), n \in {60, 1000}} :
             p \in Periods}

\* the identifiers the crate's own tests build
TestLawIds ==
    { LawId_new(Wareki_new("Showa", 25),
                MinistryOrder(Ministry_new(5, <<"MinistryOfPostsAndTelecommunicationsOrdinance">>), 4)),
      LawId_new(Wareki_new("Showa", 45), Act("Kakuhou", 89)),
      LawId_new(Wareki_new("Reiwa", 5),
                MinistryOrder(Ministry_new(6, <<"MinistryOfEconomyAndTradeAndIndustryOrdinance">>), 60)),
      LawId_new(Wareki_new("Reiwa", 5),
                MinistryOrder(Ministry_new(6, <<"MinistryOfTheEnvironmentOrdinance",
                                                "MinistryOfForeignAffairsOrdinance",
                                                "ReconstructionAgencyOrdinance">>), 60)) }

EncodeLawIds ==
    {LawId_new(w, t) : w \in AllWarekis, t \in PlainLawTypes}
    \cup {LawId_new(Wareki_new("Reiwa", 5), t) : t \in MinistryLawTypes}
    \cup TestLawIds

InitEncode ==
    /\ pc = "law_id"
    /\ lawId \in EncodeLawIds
    /\ otherId = Idle /\ idStr = Idle /\ otherStr = Idle /\ decoded = Idle /\ reStr = Idle
    /\ CalIdle /\ TextIdle /\ MinIdle /\ CodeIdle

EncodeToIdStr ==
    /\ pc = "law_id"
    /\ idStr' = LawId_to_id_str(lawId)
    /\ pc' = "to_id_str"
    /\ UNCHANGED <<lawId, otherId, otherStr, decoded, reStr, calVars, textVars, minVars, codeVars>>

EncodeFromIdStr ==
    /\ pc = "to_id_str"
    /\ decoded' = LawId_from_id_str(idStr)
    /\ pc' = "from_id_str"
    /\ UNCHANGED <<lawId, otherId, idStr, otherStr, reStr, calVars, textVars, minVars, codeVars>>

NextEncode == EncodeToIdStr \/ EncodeFromIdStr

SpecEncode == InitEncode /\ [][NextEncode]_vars

\* the numeric fields of a LawType fit the widths to_id_str writes them with
FieldsFit(t) ==
    CASE t.tag = "Constitution" -> TRUE
      [] t.tag = "Jinjin" ->
            t.kind <= 99 /\ t.kind_serial_number <= 999 /\ t.amendment_serial_number <= 999
      [] t.tag = "PrimeMinisterDecision" -> t.month <= 99 /\ t.day <= 99 /\ t.num <= 9999
      [] OTHER -> t.num <= 999

\* a member list in strictly descending bit position (so without repeats)
StrictlyDescending(p, l) ==
    \A i \in 1..(Len(l) - 1) :
        MinistryContents_to_int(p, l[i]) > MinistryContents_to_int(p, l[i + 1])

\* a LawId in the form from_id_str builds: year of at most two digits,
\* fields within their widths, member list highest position first
Canonical(x) ==
    /\ x.wareki.year <= 99
    /\ FieldsFit(x.law_type)
    /\ x.law_type.tag = "MinistryOrder" =>
          StrictlyDescending(x.law_type.ministry.period, x.law_type.ministry.l)

\* C1 as stated: for every constructible LawId x (any Wareki, any field
\* values, any member list), from_id_str(to_id_str(x)) = Some(x).
C1_RoundTripEveryLawId ==
    pc = "from_id_str" => decoded = Some(lawId)

\* C1, the part the code keeps: for every LawId x whose Wareki year is at most
\* 99, whose numeric fields fit their widths and whose MinistryOrder member
\* list is strictly descending in bit position, from_id_str(to_id_str(x)) = Some(x).
C1_RoundTripCanonical ==
    (pc = "from_id_str" /\ Canonical(lawId)) => decoded = Some(lawId)

\* a three-member MinistryOrder, listed highest position first, round-trips
C1_Witness ==
    /\ pc = "from_id_str"
    /\ lawId = LawId_new(Wareki_new("Reiwa", 5),
                         MinistryOrder(Ministry_new(6,
                             <<"MinistryOfTheEnvironmentOrdinance",
                               "MinistryOfForeignAffairsOrdinance",
                               "ReconstructionAgencyOrdinance">>), 60))
    /\ idStr = <<"5", "0", "5", "M", "6", "0", "0", "0", "1", "0", "2", "4", "0", "6", "0">>
    /\ decoded = Some(lawId)

-----------------------------------------------------------------------------
(* LawId::to_id_str on two LawIds *)

MaxPool == 2

\* the first MaxPool members of a period, in declaration order
MemberPool(p) == {PeriodMembers(p)[i] : i \in 1..MaxPool}

\* every Vec of up to MaxListLen members of the pool: any order, repeats allowed
PoolLists(p) == UNION {[1..k -> MemberPool(p)] : k \in 0..MaxListLen}

\* field values whose digits run together when a field outgrows its width
\* (kind 10 / serial 1000 and kind 101 / serial 0 are both written "101000")
InjLawTypes ==
    {Constitution}
    \cup {Act(r, n) : r \in RippouTypes, n \in {1, 1000}}
    \cup {EfficacyOrder(t, e, 1) : t \in EfficacyTags, e \in LawEfficacies}
    \cup {Jinjin(k, a, 0) : k \in {1, 10, 101}, a \in {0, 1, 1000}}
    \cup {Regulation(i, 1) : i \in InstitutionSet}
    \cup {PrimeMinisterDecision(m, d, 1) : m \in {1, 10, 101}, d \in {0, 1, 10}}
    \cup UNION {{MinistryOrder(Ministry_new(p, l), 1) : l \in PoolLists(p)} : p \in Periods}

InjLawIds ==
    {LawId_new(Wareki_new(e, 1), t) : e \in {"Meiji", "Reiwa"}, t \in InjLawTypes}
    \cup {LawId_new(Wareki_new("Meiji", 10), Constitution)}

InitInjective ==
    /\ pc = "two_law_ids"
    /\ lawId \in InjLawIds
    /\ otherId \in InjLawIds
    /\ idStr = Idle /\ otherStr = Idle /\ decoded = Idle /\ reStr = Idle
    /\ CalIdle /\ TextIdle /\ MinIdle /\ CodeIdle

InjectiveToIdStr ==
    /\ pc = "two_law_ids"
    /\ idStr' = LawId_to_id_str(lawId)
    /\ pc' = "first_to_id_str"
    /\ UNCHANGED <<lawId, otherId, otherStr, decoded, reStr, calVars, textVars, minVars, codeVars>>

InjectiveOtherToIdStr ==
    /\ pc = "first_to_id_str"
    /\ otherStr' = LawId_to_id_str(otherId)
    /\ pc' = "both_to_id_str"
    /\ UNCHANGED <<lawId, otherId, idStr, decoded, reStr, calVars, textVars, minVars, codeVars>>

NextInjective == InjectiveToIdStr \/ InjectiveOtherToIdStr

SpecInjective == InitInjective /\ [][NextInjective]_vars

\* C3 as stated: two LawIds that are unequal (Wareki and LawType, order and
\* multiplicity of the member list included) never get the same ID string.
C3_ToIdStrInjective ==
    (pc = "both_to_id_str" /\ lawId # otherId) => idStr # otherStr

\* C3, the part the code keeps: two unequal LawIds whose fields fit their
\* widths and whose member lists are strictly descending in bit position
\* never get the same ID string.
C3_ToIdStrInjectiveCanonical ==
    (pc = "both_to_id_str" /\ lawId # otherId /\ Canonical(lawId) /\ Canonical(otherId))
        => idStr # otherStr

\* and every pair that shares a string differs in nothing but the order and
\* multiplicity of the member list, unless a field has outgrown its width
C3_CollisionsAreMemberLists ==
    (pc = "both_to_id_str" /\ lawId # otherId /\ idStr = otherStr
       /\ FieldsFit(lawId.law_type) /\ FieldsFit(otherId.law_type))
        => /\ lawId.law_type.tag = "MinistryOrder"
           /\ otherId.law_type.tag = "MinistryOrder"
           /\ lawId.law_type.ministry.period = otherId.law_type.ministry.period
           /\ Range(lawId.law_type.ministry.l) = Range(otherId.law_type.ministry.l)

-----------------------------------------------------------------------------
(* LawId::from_id_str on a string, then LawId::to_id_str on what it returned *)

MaxMaskBits == 2

RECURSIVE MasksUpTo(_)
\* the 28-bit masks with at most k bits set
MasksUpTo(k) ==
    IF k = 0 THEN {0}
    ELSE LET fewer == MasksUpTo(k - 1)
         IN  fewer \cup {IF (m \div 2 ^ (n - 1)) % 2 = 1 THEN m ELSE m + 2 ^ (n - 1) :
                            m \in fewer, n \in 1..28}

\* era digit with two-digit year, and three-digit serial: every era, the
\* smallest and the largest serial
IdFrames == {<<<<"1", "0", "1">>, <<"0", "0", "0">>>>, <<<<"2", "1", "2">>, <<"0", "6", "0">>>>,
             <<<<"3", "2", "5">>, <<"0", "0", "4">>>>, <<<<"4", "0", "0">>, <<"0", "6", "0">>>>,
             <<<<"5", "0", "5">>, <<"0", "6", "0">>>>, <<<<"5", "9", "9">>, <<"9", "9", "9">>>>}

\* <era><yy>M<period><7 upper-case hex digits><serial>
MinistryIdStrs ==
    {f[1] \o <<"M", DecDigits[p + 1]>> \o FormatPadded(m, 7, 16) \o f[2] :
        f \in IdFrames, p \in Periods, m \in MasksUpTo(MaxMaskBits)}

\* one ID string of every other variant, and the ones of the crate's tests
BaseIdStrs ==
    {LawId_to_id_str(x) : x \in TestLawIds}
    \cup {LawId_to_id_str(LawId_new(Wareki_new("Showa", 26), t)) :
            t \in {Constitution, Act("Sanin", 12), EfficacyOrder("CabinetOrder", "Law", 7),
                   EfficacyOrder("DajokanTasshi", "CabinetOrder", 7), Jinjin(9, 8, 7),
                   Regulation("CulturalPropertiesProtectionCommittee", 9),
                   Regulation("BarExaminationManagementCommittee", 9),
                   PrimeMinisterDecision(6, 20, 1)}}

PerturbChars == {"+", "-", "7", "a", "x"}

\* s itself, s with one character replaced, s followed by more characters,
\* and every prefix of s
Perturbed(s) ==
    {s, s \o <<"9">>, s \o <<"x", "y">>}
    \cup {[s EXCEPT ![i] = c] : i \in 1..Len(s), c \in PerturbChars}
    \cup {SubSeq(s, 1, k) : k \in 0..Len(s)}

DecodeInputs == MinistryIdStrs \cup UNION {Perturbed(s) : s \in BaseIdStrs}

InitDecode ==
    /\ pc = "id_str"
    /\ idStr \in DecodeInputs
    /\ lawId = Idle /\ otherId = Idle /\ otherStr = Idle /\ decoded = Idle /\ reStr = Idle
    /\ CalIdle /\ TextIdle /\ MinIdle /\ CodeIdle

DecodeFromIdStr ==
    /\ pc = "id_str"
    /\ decoded' = LawId_from_id_str(idStr)
    /\ pc' = "decoded"
    /\ UNCHANGED <<lawId, otherId, idStr, otherStr, reStr, calVars, textVars, minVars, codeVars>>

\* the tests' law_id.to_id_str() after from_id_str(s).unwrap()
DecodeToIdStr ==
    /\ pc = "decoded"
    /\ IsSome(decoded)
    /\ reStr' = LawId_to_id_str(decoded[2])
    /\ pc' = "re_encoded"
    /\ UNCHANGED <<lawId, otherId, idStr, otherStr, decoded, calVars, textVars, minVars, codeVars>>

NextDecode == DecodeFromIdStr \/ DecodeToIdStr

SpecDecode == InitDecode /\ [][NextDecode]_vars

\* C2: for every string s that from_id_str accepts, to_id_str of the result
\* is byte-identical to s.
C2_ReEncodeIdentical ==
    pc = "re_encoded" => reStr = idStr

\* C12: for every input string whose length is not exactly 15 characters,
\* LawId::from_id_str returns None: it neither aborts nor accepts the string.
C12_WrongLengthIsNone ==
    (pc = "decoded" /\ Len(idStr) # 15) => decoded = None

\* s has the shape <era 1-5><2 decimal digits>M<period 1-6><7 upper-case hex
\* digits><3 decimal digits>
IsMinistryForm(s) ==
    /\ Len(s) = 15
    /\ s[1] \in {"1", "2", "3", "4", "5"}
    /\ \A i \in {2, 3, 13, 14, 15} : \E d \in 1..10 : DecDigits[d] = s[i]
    /\ s[4] = "M"
    /\ s[5] \in {"1", "2", "3", "4", "5", "6"}
    /\ \A i \in 6..12 : \E d \in 1..16 : HexUpper[d] = s[i]

DigitOf(c) == (CHOOSE d \in 1..16 : HexUpper[d] = c) - 1

\* the bit positions 1..28 set in the mask of a string of that shape
MaskBitsOf(s) ==
    LET m == DigitOf(s[6]) * 16 ^ 6 + DigitOf(s[7]) * 16 ^ 5 + DigitOf(s[8]) * 16 ^ 4
             + DigitOf(s[9]) * 16 ^ 3 + DigitOf(s[10]) * 16 ^ 2 + DigitOf(s[11]) * 16
             + DigitOf(s[12])
    IN  {n \in 1..28 : (m \div 2 ^ (n - 1)) % 2 = 1}

OwnedBits(p) == {MinistryContents_to_int(p, m) : m \in MemberSet(p)}

RECURSIVE MembersHighToLow(_, _)
\* the members of period p at the positions in bits, highest position first
MembersHighToLow(p, bits) ==
    IF bits = {} THEN <<>>
    ELSE LET n == CHOOSE n \in bits : \A k \in bits : k <= n
         IN  <<CHOOSE m \in MemberSet(p) : MinistryContents_to_int(p, m) = n>>
             \o MembersHighToLow(p, bits \ {n})

\* the LawId a string of that shape stands for
MinistryFormLawId(s) ==
    LawId_new(Wareki_new(Eras[DigitOf(s[1])], 10 * DigitOf(s[2]) + DigitOf(s[3])),
              MinistryOrder(Ministry_new(DigitOf(s[5]),
                                         MembersHighToLow(DigitOf(s[5]), MaskBitsOf(s))),
                            100 * DigitOf(s[13]) + 10 * DigitOf(s[14]) + DigitOf(s[15])))

\* C4: for every 15-character ID <era 1-5><2 digits>M<period 1-6><7 upper-case
\* hex digits><3 digits> whose set mask bits all belong to members of the
\* period, from_id_str returns Some of the MinistryOrder of that period with
\* exactly the members of the set bits, highest bit first, and num the
\* serial; and to_id_str of the result is the input string.
C4_MinistryIdDecodes ==
    (/\ pc \in {"decoded", "re_encoded"}
     /\ IsMinistryForm(idStr)
     /\ MaskBitsOf(idStr) \subseteq OwnedBits(DigitOf(idStr[5])))
        => /\ decoded = Some(MinistryFormLawId(idStr))
           /\ pc = "re_encoded" => reStr = idStr

\* "505M60001024060" decodes to the three members at positions 13, 6 and 3 of
\* M6, in that order, and is written back unchanged
C4_Witness ==
    /\ pc = "re_encoded"
    /\ idStr = <<"5", "0", "5", "M", "6", "0", "0", "0", "1", "0", "2", "4", "0", "6", "0">>
    /\ IsMinistryForm(idStr)
    /\ MaskBitsOf(idStr) = {13, 6, 3}
    /\ decoded[2].law_type.ministry.l = <<"MinistryOfTheEnvironmentOrdinance",
                                          "MinistryOfForeignAffairsOrdinance",
                                          "ReconstructionAgencyOrdinance">>
    /\ decoded[2].law_type.num = 60
    /\ reStr = idStr

-----------------------------------------------------------------------------
(* Wareki::from_text.  A text is a sequence of characters; the characters
   outside ASCII are written by name: "mei" "ji" (Meiji), "tai" "shou"
   (Taisho), "shou_" "wa" (Showa), "hei" "sei" (Heisei), "rei" "wa" (Reiwa),
   "gan" (the first-year sign), "nen" (the year sign), "k1".."k9" "k10" "k100"
   (kanji numerals), "z0".."z9" (full-width digits). *)

Era_to_text(e) ==
    CASE e = "Meiji" -> <<"mei", "ji">>
      [] e = "Taisho" -> <<"tai", "shou">>
      [] e = "Showa" -> <<"shou_", "wa">>
      [] e = "Heisei" -> <<"hei", "sei">>
      [] e = "Reiwa" -> <<"rei", "wa">>

Era_from_text(s) ==
    CASE s = <<"mei", "ji">> -> Some("Meiji")
      [] s = <<"tai", "shou">> -> Some("Taisho")
      [] s = <<"shou_", "wa">> -> Some("Showa")
      [] s = <<"hei", "sei">> -> Some("Heisei")
      [] s = <<"rei", "wa">> -> Some("Reiwa")
      [] OTHER -> None

KanDigits == <<"k1", "k2", "k3", "k4", "k5", "k6", "k7", "k8", "k9">>
ZenDigits == <<"z0", "z1", "z2", "z3", "z4", "z5", "z6", "z7", "z8", "z9">>

\* the three character classes of the pattern; each lists '|' as a member
KansujiClass == {KanDigits[i] : i \in 1..9} \cup {"k10", "k100", "|"}
NumClass == {DecDigits[i] : i \in 1..10} \cup {"|"}
NumZenClass == {ZenDigits[i] : i \in 1..10} \cup {"|"}

RECURSIVE RunEnd(_, _, _)
\* the index of the last character of the longest run of class characters
\* that starts at index k (k - 1 when there is none)
RunEnd(t, k, class) ==
    IF k <= Len(t) /\ t[k] \in class THEN RunEnd(t, k + 1, class) ELSE k - 1

\* one alternative [class]+ followed by the year sign, the run starting at
\* index k: a greedy run can only be followed by the year sign at its end
RunCapture(t, k, class, group) ==
    LET j == RunEnd(t, k, class)
    IN  IF j >= k /\ j + 1 <= Len(t) /\ t[j + 1] = "nen"
        THEN Some([group |-> group, s |-> SubSeq(t, k, j)])
        ELSE None

\* the pattern tried at index i: era name, then the four alternatives in
\* the order they are written, then the year sign
MatchAt(t, i) ==
    IF i + 1 > Len(t) \/ ~IsSome(Era_from_text(SubSeq(t, i, i + 1))) THEN None
    ELSE LET era == SubSeq(t, i, i + 1)
             k == i + 2
             kan == RunCapture(t, k, KansujiClass, "year_kansuji")
             num == RunCapture(t, k, NumClass, "year_num")
             zen == RunCapture(t, k, NumZenClass, "year_num_zen")
             c == IF k + 1 <= Len(t) /\ t[k] = "gan" /\ t[k + 1] = "nen"
                  THEN Some([group |-> "year_gan", s |-> <<"gan">>])
                  ELSE IF IsSome(kan) THEN kan
                  ELSE IF IsSome(num) THEN num
                  ELSE zen
         IN  IF IsSome(c) THEN Some([era |-> era, group |-> c[2].group, s |-> c[2].s])
             ELSE None

\* re.captures(text): the leftmost match
Captures(t) ==
    IF \E i \in 1..Len(t) : IsSome(MatchAt(t, i))
    THEN MatchAt(t, CHOOSE i \in 1..Len(t) :
                       IsSome(MatchAt(t, i)) /\ \A h \in 1..(i - 1) : ~IsSome(MatchAt(t, h)))
    ELSE None

KanDigitValue(c) == CHOOSE d \in 1..9 : KanDigits[d] = c

\* s without a leading hundreds (tens) group: the unit alone or a digit 2..9
\* and the unit
StripUnit(s, unit) ==
    IF Len(s) >= 1 /\ s[1] = unit THEN Tail(s)
    ELSE IF Len(s) >= 2 /\ s[1] \in {KanDigits[d] : d \in 2..9} /\ s[2] = unit
         THEN SubSeq(s, 3, Len(s))
    ELSE s

\* a kanji numeral below 1000 in its usual spelling
IsUsualKansuji(s) ==
    LET rest == StripUnit(StripUnit(s, "k100"), "k10")
    IN  /\ Len(s) > 0
        /\ Len(rest) = 0 \/ (Len(rest) = 1 /\ rest[1] \in {KanDigits[d] : d \in 1..9})

RECURSIVE KansujiSum(_, _, _)
\* digits and units read left to right: a unit multiplies the digit before it
KansujiSum(s, total, cur) ==
    IF Len(s) = 0 THEN total + cur
    ELSE IF Head(s) = "k10" THEN KansujiSum(Tail(s), total + (IF cur = 0 THEN 1 ELSE cur) * 10, 0)
    ELSE IF Head(s) = "k100" THEN KansujiSum(Tail(s), total + (IF cur = 0 THEN 1 ELSE cur) * 100, 0)
    ELSE KansujiSum(Tail(s), total, KanDigitValue(Head(s)))

\* Kansuji::try_from(s).ok() and the conversion to a number: the number a
\* numeral in its usual spelling denotes; an error for a string with a
\* character that is no numeral; for other strings of numerals the crate
\* kansuji decides, and either outcome is allowed here
Kansuji_try_from(s) ==
    IF \E i \in 1..Len(s) : s[i] = "|" THEN {None}
    ELSE IF IsUsualKansuji(s) THEN {Some(KansujiSum(s, 0, 0))}
    ELSE {None, Some(KansujiSum(s, 0, 0))}

\* A slip: the replacement of the full-width five left out.
ReplaceZenWithoutFive(c) ==
    IF c # "z5" /\ \E d \in 1..10 : ZenDigits[d] = c
    THEN DecDigits[CHOOSE d \in 1..10 : ZenDigits[d] = c]
    ELSE c

\* the ten .replace() calls on one character
ReplaceZen(c) ==
    IF \E d \in 1..10 : ZenDigits[d] = c
    THEN DecDigits[CHOOSE d \in 1..10 : ZenDigits[d] = c]
    ELSE c

WarekiOfYear(era, year_opt) ==
    IF IsSome(year_opt) THEN Some(Wareki_new(era, year_opt[2])) ELSE None

\* every value Wareki::from_text(t) can return
Wareki_from_text(t) ==
    LET caps == Captures(t) IN
    IF ~IsSome(caps) THEN {None}
    ELSE LET era == Era_from_text(caps[2].era)[2]
             s == caps[2].s
         IN  CASE caps[2].group = "year_gan" -> {Some(Wareki_new(era, 1))}
               [] caps[2].group = "year_kansuji" ->
                     {WarekiOfYear(era, y) : y \in Kansuji_try_from(s)}
               [] caps[2].group = "year_num" -> {WarekiOfYear(era, parse_usize(s))}
               [] caps[2].group = "year_num_zen" ->
                     {WarekiOfYear(era, parse_usize([i \in 1..Len(s) |-> ReplaceZen(s[i])]))}

MaxYear == 64
MaxYearLen == 2

RECURSIVE KansujiOf(_)
\* the usual kanji spelling of n, 1 <= n <= 999
KansujiOf(n) ==
    IF n >= 100 THEN (IF n \div 100 > 1 THEN <<KanDigits[n \div 100]>> ELSE <<>>) \o <<"k100">>
                     \o (IF n % 100 > 0 THEN KansujiOf(n % 100) ELSE <<>>)
    ELSE IF n >= 10 THEN (IF n \div 10 > 1 THEN <<KanDigits[n \div 10]>> ELSE <<>>) \o <<"k10">>
                     \o (IF n % 10 > 0 THEN KansujiOf(n % 10) ELSE <<>>)
    ELSE <<KanDigits[n]>>

RECURSIVE NumZenOf(_)
\* n in full-width digits
NumZenOf(n) ==
    IF n < 10 THEN <<ZenDigits[n + 1]>> ELSE NumZenOf(n \div 10) \o <<ZenDigits[(n % 10) + 1]>>

RECURSIVE NumOf(_)
\* n in ASCII digits
NumOf(n) ==
    IF n < 10 THEN <<DecDigits[n + 1]>> ELSE NumOf(n \div 10) \o <<DecDigits[(n % 10) + 1]>>

\* the three spellings of year n
YearExprs(n) == {KansujiOf(n), NumOf(n), NumZenOf(n)}

\* <era name><year expression><year sign>, as in the doc comment and the tests
WarekiTexts ==
    {Era_to_text(e) \o y \o <<"nen">> :
        e \in EraSet, y \in {<<"gan">>} \cup UNION {YearExprs(n) : n \in 1..MaxYear}}

YearChars == {"gan", "k5", "k10", "1", "5", "z1", "z5", "|", "x"}

\* other texts: something or nothing in front, an era name or two characters
\* that are none, up to MaxYearLen characters, and the year sign or not
OtherTexts ==
    {pre \o era \o y \o post :
        pre \in {<<>>, <<"x">>},
        era \in {Era_to_text(e) : e \in EraSet} \cup {<<"mei", "wa">>},
        y \in UNION {[1..k -> YearChars] : k \in 0..MaxYearLen},
        post \in {<<"nen">>, <<"x">>}}

InitText ==
    /\ pc = "text"
    /\ text \in WarekiTexts \cup OtherTexts
    /\ parsed = Idle
    /\ CalIdle /\ IdIdle /\ MinIdle /\ CodeIdle

FromText ==
    /\ pc = "text"
    /\ parsed' \in Wareki_from_text(text)
    /\ pc' = "from_text"
    /\ UNCHANGED <<text, calVars, idVars, minVars, codeVars>>

NextText == FromText

SpecText == InitText /\ [][NextText]_vars

\* the text holds an era name, then the first-year sign or a run of kanji
\* numerals, of ASCII digits or of full-width digits, then the year sign
HasWarekiExpr(t) ==
    \E i \in 1..Len(t), j \in 1..Len(t) :
        /\ j >= i + 3
        /\ SubSeq(t, i, i + 1) \in {Era_to_text(e) : e \in EraSet}
        /\ t[j] = "nen"
        /\ LET y == SubSeq(t, i + 2, j - 1)
           IN  \/ y = <<"gan">>
               \/ \A h \in 1..Len(y) : y[h] \in KansujiClass \ {"|"}
               \/ \A h \in 1..Len(y) : y[h] \in NumClass \ {"|"}
               \/ \A h \in 1..Len(y) : y[h] \in NumZenClass \ {"|"}

-----------------------------------------------------------------------------
(* LawType::from_id_str on a 12-character type string (idStr holds the type
   string, decoded what from_id_str returned) *)

\* one type string of every variant and discriminator, one of every period
BaseTypeStrs ==
    {LawType_to_id_str(t) : t \in
        {Constitution, Jinjin(9, 8, 7), PrimeMinisterDecision(6, 20, 1),
         Regulation("CulturalPropertiesProtectionCommittee", 9),
         Regulation("CasinoManagementCommittee", 0)}
        \cup {Act(r, 89) : r \in RippouTypes}
        \cup {EfficacyOrder(t, e, 7) : t \in EfficacyTags, e \in LawEfficacies}
        \cup {MinistryOrder(Ministry_new(p, <<PeriodMembers(p)[1], PeriodMembers(p)[3]>>), 60) :
                 p \in Periods}}

EditChars == {"+", "-", "x", "a", "F", "1", "7", "M", "R"}

\* s, and s with one of its characters replaced
Edited(s) == {s} \cup {[s EXCEPT ![i] = c] : i \in 1..Len(s), c \in EditChars}

PayloadDigits == {"0", "1", "9"}

\* "RJNJ", "RPMD" and "R000" followed by eight digits
RTypeStrs ==
    {pre \o d : pre \in {<<"R", "J", "N", "J">>, <<"R", "P", "M", "D">>, <<"R", "0", "0", "0">>},
                d \in [1..8 -> PayloadDigits]}

TypeInputs == RTypeStrs \cup UNION {Edited(s) : s \in BaseTypeStrs}

InitType ==
    /\ pc = "type_str"
    /\ idStr \in TypeInputs
    /\ lawId = Idle /\ otherId = Idle /\ otherStr = Idle /\ decoded = Idle /\ reStr = Idle
    /\ CalIdle /\ TextIdle /\ MinIdle /\ CodeIdle

TypeFromIdStr ==
    /\ pc = "type_str"
    /\ decoded' = LawType_from_id_str(idStr)
    /\ pc' = "type_decoded"
    /\ UNCHANGED <<lawId, otherId, idStr, otherStr, reStr, calVars, textVars, minVars, codeVars>>

NextType == TypeFromIdStr

SpecType == InitType /\ [][NextType]_vars

IsDec(c) == \E d \in 1..10 : DecDigits[d] = c
IsHex(c) == (\E d \in 1..16 : HexUpper[d] = c) \/ (\E d \in 1..16 : HexLower[d] = c)
AllDec(s, a, b) == \A i \in a..b : IsDec(s[i])

\* the value of the decimal digits s[a..b]
RECURSIVE DecValue(_, _, _)
DecValue(s, a, b) ==
    IF b < a THEN 0
    ELSE 10 * DecValue(s, a, b - 1) + ((CHOOSE d \in 1..10 : DecDigits[d] = s[b]) - 1)

EfficacyPrefixes == {<<"C", "O">>, <<"I", "O">>, <<"D", "F">>, <<"D", "T">>, <<"D", "H">>}

\* the documented prefix of a 12-character type string, "" when it has none
TypePrefix(s) ==
    IF s = CONSTITUTION THEN "CONSTITUTION"
    ELSE IF SubSeq(s, 1, 2) = <<"A", "C">> THEN "AC"
    ELSE IF SubSeq(s, 1, 2) \in EfficacyPrefixes THEN "E"
    ELSE IF s[1] = "M" /\ s[2] \in {"1", "2", "3", "4", "5", "6"} THEN "M"
    ELSE IF SubSeq(s, 1, 4) = <<"R", "J", "N", "J">> THEN "RJNJ"
    ELSE IF SubSeq(s, 1, 4) = <<"R", "P", "M", "D">> THEN "RPMD"
    ELSE IF s[1] = "R" THEN "R"
    ELSE ""

\* a payload field of s holds a character that is no digit (no hex digit in
\* the ministry mask)
BadPayload(s) ==
    CASE TypePrefix(s) \in {"AC", "E"} -> ~AllDec(s, 3, 12)
      [] TypePrefix(s) = "M" -> (\E i \in 3..9 : ~IsHex(s[i])) \/ ~AllDec(s, 10, 12)
      [] TypePrefix(s) \in {"RJNJ", "RPMD"} -> ~AllDec(s, 5, 12)
      [] TypePrefix(s) = "R" -> ~AllDec(s, 2, 12)
      [] OTHER -> FALSE

\* the flag of an AC or CO/IO/DF/DT/DH string is outside the documented set
BadFlag(s) ==
    /\ TypePrefix(s) \in {"AC", "E"}
    /\ AllDec(s, 3, 9)
    /\ DecValue(s, 3, 9) \notin
          (IF TypePrefix(s) = "AC" THEN {0, 100000, 1000000} ELSE {0, 1000000})

\* C13: for every 12-character type string, LawType::from_id_str returns None
\* when the prefix is none of the documented ones, when a payload field
\* holds a character other than 0-9 (a hex digit in the ministry mask), or
\* when an AC or CO/IO/DF/DT/DH flag is outside its documented set.
C13_MalformedTypeIsNone ==
    (pc = "type_decoded" /\ Len(idStr) = 12
       /\ (TypePrefix(idStr) = "" \/ BadPayload(idStr) \/ BadFlag(idStr)))
        => decoded = None

\* C20: every 12-character string of "RJNJ" and 8 digits decodes to Jinjin
\* and every one of "RPMD" and 8 digits to PrimeMinisterDecision, with the
\* fields the digits spell; neither is decoded as Regulation or rejected.
C20_LongRPrefixesFirst ==
    (pc = "type_decoded" /\ Len(idStr) = 12 /\ AllDec(idStr, 5, 12)) =>
        /\ TypePrefix(idStr) = "RJNJ" =>
              decoded = Some(Jinjin(DecValue(idStr, 5, 6), DecValue(idStr, 7, 9),
                                    DecValue(idStr, 10, 12)))
        /\ TypePrefix(idStr) = "RPMD" =>
              decoded = Some(PrimeMinisterDecision(DecValue(idStr, 5, 6), DecValue(idStr, 7, 8),
                                                   DecValue(idStr, 9, 12)))

\* "RPMD06200001" has been decoded to the decision of 20 June, number 1
C20_Witness ==
    /\ pc = "type_decoded"
    /\ idStr = <<"R", "P", "M", "D", "0", "6", "2", "0", "0", "0", "0", "1">>
    /\ decoded = Some(PrimeMinisterDecision(6, 20, 1))

-----------------------------------------------------------------------------
(* MinistryContents::to_id_str: the mask it writes *)

RECURSIVE HexValue(_)
\* the value of a string of upper-case hex digits
HexValue(s) ==
    IF Len(s) = 0 THEN 0 ELSE 16 * HexValue(SubSeq(s, 1, Len(s) - 1)) + DigitOf(s[Len(s)])

RECURSIVE BitsOfSet(_, _)
\* the sum of 2^(to_int(m) - 1) over the set S of members of period p
BitsOfSet(p, S) ==
    IF S = {} THEN 0
    ELSE LET m == CHOOSE m \in S : TRUE
         IN  2 ^ (MinistryContents_to_int(p, m) - 1) + BitsOfSet(p, S \ {m})

\* C19: for every list of members of one period (any order, repeats or not,
\* the empty list too) to_id_str returns exactly 7 upper-case hex characters
\* whose value is the OR of 2^(to_int(m)-1) over the members: one bit for
\* each member of the list taken as a set, and so below 2^28.
C19_MaskIsOrOfMemberBits ==
    pc = "to_id_str" =>
        /\ Len(hexStr) = 7
        /\ \A i \in 1..Len(hexStr) : \E d \in 1..16 : HexUpper[d] = hexStr[i]
        /\ HexValue(hexStr) = BitsOfSet(period, Range(members))
        /\ HexValue(hexStr) < 2 ^ 28

\* a list that names one member of M5 twice gets the mask of that one member
C19_Witness ==
    /\ pc = "to_id_str"
    /\ period = 5
    /\ members = <<"MinistryOfPostsAndTelecommunicationsOrdinance",
                   "MinistryOfPostsAndTelecommunicationsOrdinance">>
    /\ hexStr = <<"0", "0", "0", "1", "0", "0", "0">>

-----------------------------------------------------------------------------
(* MinistryContents::from_id_str on a 28-character string *)

MaxMarks == 2

MarkChars == {"1", "x"}

RECURSIVE Marked(_)
\* 28 characters '0' of which up to k are replaced by '1' or by 'x'
Marked(k) ==
    IF k = 0 THEN {[i \in 1..28 |-> "0"]}
    ELSE LET fewer == Marked(k - 1)
         IN  fewer \cup {[t EXCEPT ![i] = c] : t \in fewer, i \in 1..28, c \in MarkChars}

InitScan ==
    /\ pc = "byte_str"
    /\ period \in Periods
    /\ byteStr \in Marked(MaxMarks)
    /\ members = Idle /\ hexStr = Idle /\ decMembers = Idle
    /\ CalIdle /\ TextIdle /\ IdIdle /\ CodeIdle

ScanFromIdStr ==
    /\ pc = "byte_str"
    /\ decMembers' = MinistryContents_from_id_str(period, byteStr)
    /\ pc' = "scanned"
    /\ UNCHANGED <<period, members, hexStr, byteStr, calVars, textVars, idVars, codeVars>>

NextScan == ScanFromIdStr

SpecScan == InitScan /\ [][NextScan]_vars

\* the character at 0-based index i stops the scan: it is neither '0' nor
\* '1', or it is a '1' at a position 28 - i that no member of period p owns
Stops(p, s, i) ==
    \/ s[i + 1] \notin {"0", "1"}
    \/ s[i + 1] = "1" /\ (28 - i) \notin OwnedBits(p)

\* C14: on a 28-character string from_id_str takes the character at index i
\* (0-based) for bit position 28 - i; at the first character that is neither
\* '0' nor '1' it returns Err naming the character, at the first '1' at a
\* position no member of the period owns it returns Err naming the
\* position, and otherwise it returns Ok with the members of the '1's from
\* position 28 down; Ok never comes with a partial list.
C14_ScanStopsAtFirstError ==
    (pc = "scanned" /\ Len(byteStr) = 28) =>
        IF \E i \in 0..27 : Stops(period, byteStr, i)
        THEN LET i == CHOOSE i \in 0..27 :
                          Stops(period, byteStr, i) /\ \A h \in 0..(i - 1) : ~Stops(period, byteStr, h)
             IN  IF byteStr[i + 1] = "1"
                 THEN decMembers = <<"Err", <<"unexpected flag", 28 - i>>>>
                 ELSE decMembers = <<"Err", <<"unexpected char", byteStr[i + 1]>>>>
        ELSE decMembers = <<"Ok", MembersHighToLow(period,
                                      {28 - i : i \in {h \in 0..27 : byteStr[h + 1] = "1"}})>>

\* position 28 of M1 is nobody's: a '1' in front stops the scan at once,
\* before the 'x' further on
C14_Witness ==
    /\ pc = "scanned"
    /\ period = 1
    /\ byteStr[1] = "1"
    /\ \E i \in 2..28 : byteStr[i] = "x"
    /\ decMembers = <<"Err", <<"unexpected flag", 28>>>>

-----------------------------------------------------------------------------
(* The date ranges of the six periods: start, end, applicable,
   applicable_wareki, and the order of Date *)

\* usize::MAX, the year of the last period's end.  It is the one year whose
\* key overflows; the largest integer of the checker stands for it.
usize_MAX == 2147483647

MinistryContents_start(p) ==
    CASE p = 1 -> Date_new_ad(1869, 7, 8)
      [] p = 2 -> Date_new_ad(1943, 11, 1)
      [] p = 3 -> Date_new_ad(1945, 12, 1)
      [] p = 4 -> Date_new_ad(1947, 5, 3)
      [] p = 5 -> Date_new_ad(1949, 6, 1)
      [] p = 6 -> Date_new_ad(2001, 1, 6)

MinistryContents_end(p) ==
    CASE p = 1 -> Date_new_ad(1943, 10, 31)
      [] p = 2 -> Date_new_ad(1945, 11, 30)
      [] p = 3 -> Date_new_ad(1947, 5, 2)
      [] p = 4 -> Date_new_ad(1949, 5, 31)
      [] p = 5 -> Date_new_ad(2001, 1, 5)
      [] p = 6 -> Date_new_ad(usize_MAX, 12, 31)

Ok(v) == <<"Ok", v>>

\* a <= b by Ord for Date, every outcome a build can give.  The keys are
\* year * 10000 + month * 100 + day in usize; with year usize::MAX the
\* product overflows: a build with overflow checks aborts, one without
\* wraps to 2^64 - 8769 (2^32 - 8769), which stays above every other key.
Date_le(a, b) ==
    IF b.year = usize_MAX THEN {Panic, Ok(TRUE)}
    ELSE IF a.year = usize_MAX THEN {Panic, Ok(FALSE)}
    ELSE {Ok(DateKey(a.year, a.month, a.day) <= DateKey(b.year, b.month, b.day))}

\* Self::start() <= date && date <= Self::end(), every outcome
MinistryContents_applicable(p, d) ==
    UNION {IF lo = Ok(TRUE) THEN Date_le(d, MinistryContents_end(p)) ELSE {lo} :
             lo \in Date_le(MinistryContents_start(p), d)}

Applicable ==
    /\ pc = "new_ad"
    /\ \E r1 \in MinistryContents_applicable(1, date),
          r2 \in MinistryContents_applicable(2, date),
          r3 \in MinistryContents_applicable(3, date),
          r4 \in MinistryContents_applicable(4, date),
          r5 \in MinistryContents_applicable(5, date),
          r6 \in MinistryContents_applicable(6, date) :
            applies' = <<r1, r2, r3, r4, r5, r6>>
    /\ pc' = "applicable"
    /\ UNCHANGED <<date, wareki, adYear, otherDate, ordering, textVars, idVars, minVars, codeVars>>

NextPeriods == Applicable

SpecPeriods == InitCalendar /\ [][NextPeriods]_vars

\* C17: the six ranges are M1 [1869-07-08, 1943-10-31], M2 [1943-11-01,
\* 1945-11-30], M3 [1945-12-01, 1947-05-02], M4 [1947-05-03, 1949-05-31],
\* M5 [1949-06-01, 2001-01-05], M6 [2001-01-06, unbounded), and for every
\* date with month 1..12 and day 1..31 on or after 1869-07-08 exactly one
\* period's applicable(date) returns true.
C17_ExactlyOnePeriod ==
    /\ <<MinistryContents_start(1), MinistryContents_end(1)>>
          = <<Date_new_ad(1869, 7, 8), Date_new_ad(1943, 10, 31)>>
    /\ <<MinistryContents_start(2), MinistryContents_end(2)>>
          = <<Date_new_ad(1943, 11, 1), Date_new_ad(1945, 11, 30)>>
    /\ <<MinistryContents_start(3), MinistryContents_end(3)>>
          = <<Date_new_ad(1945, 12, 1), Date_new_ad(1947, 5, 2)>>
    /\ <<MinistryContents_start(4), MinistryContents_end(4)>>
          = <<Date_new_ad(1947, 5, 3), Date_new_ad(1949, 5, 31)>>
    /\ <<MinistryContents_start(5), MinistryContents_end(5)>>
          = <<Date_new_ad(1949, 6, 1), Date_new_ad(2001, 1, 5)>>
    /\ MinistryContents_start(6) = Date_new_ad(2001, 1, 6)
    /\ (pc = "applicable" /\ date.month \in 1..12 /\ date.day \in 1..31
          /\ DateKey(date.year, date.month, date.day) >= 18690708)
         => Cardinality({p \in Periods : applies[p] = Ok(TRUE)}) = 1

\* C17 short of the abort: no two periods accept one date, and every date
\* before 2001-01-06 is accepted by exactly one, the 31st of November 1945
\* excepted, which falls between the end of M2 and the start of M3.
C17_NeverTwoPeriods ==
    (pc = "applicable" /\ date.month \in 1..12 /\ date.day \in 1..31
       /\ DateKey(date.year, date.month, date.day) >= 18690708)
        => /\ Cardinality({p \in Periods : applies[p] = Ok(TRUE)}) <= 1
           /\ (DateKey(date.year, date.month, date.day) < 20010106
                 /\ date # Date_new_ad(1945, 11, 31))
                 => Cardinality({p \in Periods : applies[p] = Ok(TRUE)}) = 1
           /\ \A p \in 1..5 : applies[p] # Panic

\* C25: M6Ministry::applicable(date) never overflows: the key of M6's end
\* (year usize::MAX, month 12, day 31) stays within the unsigned 64-bit
\* range, and the call returns true for every date on or after 2001-01-06.
C25_LastPeriodNeverOverflows ==
    pc = "applicable" =>
        /\ applies[6] # Panic
        /\ DateKey(date.year, date.month, date.day) >= 20010106 => applies[6] = Ok(TRUE)

-----------------------------------------------------------------------------
(* The width of the identifier *)

\* C18: for every LawId whose Wareki year is at most 99 and whose numeric
\* fields fit their widths, to_id_str returns exactly 15 characters: the era
\* digit, the year as two zero-padded digits and a type code of 12
\* characters, for every LawType variant, Constitution included.
C18_FifteenCharacters ==
    (pc \in {"to_id_str", "from_id_str"} /\ lawId.wareki.year <= 99
       /\ FieldsFit(lawId.law_type))
        => /\ Len(idStr) = 15
           /\ idStr[1] = DecDigits[Era_to_number(lawId.wareki.era) + 1]
           /\ idStr[2] = DecDigits[(lawId.wareki.year \div 10) + 1]
           /\ idStr[3] = DecDigits[(lawId.wareki.year % 10) + 1]
           /\ Len(LawType_to_id_str(lawId.law_type)) = 12
           /\ SubSeq(idStr, 4, 15) = LawType_to_id_str(lawId.law_type)

\* the Constitution of Showa 99 is written in 15 characters
C18_Witness ==
    /\ pc = "to_id_str"
    /\ lawId = LawId_new(Wareki_new("Showa", 99), Constitution)
    /\ idStr = <<"3", "9", "9">> \o CONSTITUTION

-----------------------------------------------------------------------------
(* from_name of the six periods.  Characters that have no name above are
   written by code point: "u95A3" is U+95A3. *)

\* the if statements of from_name in their order: the member pushed and the
\* strings name must contain
FromNameRules(p) ==
    CASE p = 1 ->
          << <<"CabinetOrder", << <<"u95A3">> >> >>,
            <<"ImperialHouseholdOrdinance", << <<"u5BAE", "u5185", "u7701">> >> >>,
            <<"GreaterEastAsiaMinisterialOrdinance", << <<"tai", "u6771", "u4E9C", "u7701">> >> >>,
            <<"MinistryOfTheInteriorOrdinance", << <<"u5185", "u52D9", "u7701">> >> >>,
            <<"MinistryOfJusticeOrdinance", << <<"u53F8", "u6CD5", "u7701">> >> >>,
            <<"MinistryOfForeignAffairsOrdinance", << <<"u5916", "u52D9", "u7701">> >> >>,
            <<"MinistryOfFinanceOrdinance", << <<"tai", "u8535", "u7701">> >> >>,
            <<"MinistryOfEducationOrdinance", << <<"u6587", "u90E8", "u7701">> >> >>,
            <<"MinistryOfHealthAndWelfareOrdinance", << <<"u539A", "u751F", "u7701">> >> >>,
            <<"MinistryOfAgricultureAndCommerceOrdinance", << <<"u8FB2", "u5546", "u52D9", "u7701">> >> >>,
            <<"MinistryOfCommerceAndIndustryOrdinance", << <<"u5546", "u5DE5", "u7701">> >> >>,
            <<"RailwayMinisterialOrdinance", << <<"u9244", "u9053", "u7701">> >> >>,
            <<"MinistryOfCommunicationsOrdinance", << <<"u9013", "u4FE1", "u7701">> >> >>,
            <<"MinistryOfTheArmyOrdinanceA", << <<"u9678", "u8ECD", "u7701">>, <<"u7532">> >> >>,
            <<"NavyMinisterialOrdinance", << <<"u6D77", "u8ECD", "u7701">> >> >>,
            <<"MinistryOfTheArmyOrdinanceB", << <<"u9678", "u8ECD", "u7701">>, <<"u4E59">> >> >>,
            <<"MinistryOfAgricultureAndForestryOrdinance", << <<"u8FB2", "u6797", "u7701">> >> >>,
            <<"MinistryOfLandDevelopmentOrdinanceA", << <<"u62D3", "u6B96", "u52D9", "u7701">> >> >>,
            <<"MinistryOfLandDevelopmentOrdinanceB", << <<"u62D3", "u52D9", "u7701">> >> >>,
            <<"MinistryOfAgricultureAndCommerceOrdinanceTemporary", << <<"u8FB2", "u5546", "u52D9", "u7701">>, <<"u81E8">> >> >>,
            <<"MinistryOfJusticeOrdinanceHei", << <<"u53F8", "u6CD5", "u7701">>, <<"u4E19">> >> >> >>
      [] p = 2 ->
          << <<"CabinetOrder", << <<"u95A3">> >> >>,
            <<"ImperialHouseholdOrdinance", << <<"u5BAE", "u5185", "u7701">> >> >>,
            <<"GreaterEastAsiaMinisterialOrdinance", << <<"tai", "u6771", "u4E9C", "u7701">> >> >>,
            <<"MinistryOfTheInteriorOrdinance", << <<"u5185", "u52D9", "u7701">> >> >>,
            <<"MinistryOfJusticeOrdinance", << <<"u53F8", "u6CD5", "u7701">> >> >>,
            <<"MinistryOfForeignAffairsOrdinance", << <<"u5916", "u52D9", "u7701">> >> >>,
            <<"MinistryOfFinanceOrdinance", << <<"tai", "u8535", "u7701">> >> >>,
            <<"MinistryOfEducationOrdinance", << <<"u6587", "u90E8", "u7701">> >> >>,
            <<"MinistryOfHealthAndWelfareOrdinance", << <<"u539A", "u751F", "u7701">> >> >>,
            <<"MinistryOfAgricultureAndCommerceOrdinance", << <<"u8FB2", "u5546", "u52D9", "u7701">> >> >>,
            <<"MinistryOfCommerceAndIndustryOrdinance", << <<"u5546", "u5DE5", "u7701">> >> >>,
            <<"MinistryOfTransportOrdinance", << <<"u904B", "u8F38", "u7701">> >> >>,
            <<"MinistryOfTransportAndCommunicationsOrdinance", << <<"u904B", "u8F38", "u901A", "u4FE1", "u7701">> >> >>,
            <<"MinistryOfTheArmyOrdinanceA", << <<"u9678", "u8ECD", "u7701">>, <<"u7532">> >> >>,
            <<"NavyMinisterialOrdinance", << <<"u6D77", "u8ECD", "u7701">> >> >>,
            <<"OrdinanceOfTheMinistryOfMunitions", << <<"u8ECD", "u9700", "u7701">> >> >>,
            <<"MinistryOfAgricultureAndForestryOrdinance", << <<"u8FB2", "u6797", "u7701">> >> >> >>
      [] p = 3 ->
          << <<"CabinetOrder", << <<"u95A3">> >> >>,
            <<"ImperialHouseholdOrdinance", << <<"u5BAE", "u5185", "u7701">> >> >>,
            <<"EconomicStabilityHeadquartersOrdinance", << <<"u7D4C", "u6E08", "u5B89", "u5B9A", "u672C", "u90E8">> >> >>,
            <<"MinistryOfTheInteriorOrdinance", << <<"u5185", "u52D9", "u7701">> >> >>,
            <<"MinistryOfJusticeOrdinance", << <<"u53F8", "u6CD5", "u7701">> >> >>,
            <<"MinistryOfForeignAffairsOrdinance", << <<"u5916", "u52D9", "u7701">> >> >>,
            <<"MinistryOfFinanceOrdinance", << <<"tai", "u8535", "u7701">> >> >>,
            <<"MinistryOfEducationOrdinance", << <<"u6587", "u90E8", "u7701">> >> >>,
            <<"MinistryOfHealthAndWelfareOrdinance", << <<"u539A", "u751F", "u7701">> >> >>,
            <<"MinistryOfAgricultureAndForestryOrdinance", << <<"u8FB2", "u6797", "u7701">> >> >>,
            <<"MinistryOfCommerceAndIndustryOrdinance", << <<"u5546", "u5DE5", "u7701">> >> >>,
            <<"MinistryOfTransportOrdinance", << <<"u904B", "u8F38", "u7701">> >> >>,
            <<"MinistryOfCommunicationsOrdinance", << <<"u9013", "u4FE1", "u7701">> >> >>,
            <<"FirstMinisterialOrdinanceForDemobilization", << <<"u7B2C", "k1", "u5FA9", "u54E1", "u7701">> >> >>,
            <<"SecondMinisterialOrdinanceForDemobilization", << <<"u7B2C", "k2", "u5FA9", "u54E1", "u7701">> >> >>,
            <<"PriceAgencyOrdinance", << <<"u7269", "u4FA1", "u5E81">> >> >>,
            <<"CentralLaborRelationsCommissionRules", << <<"u4E2D", "u592E", "u52B4", "u50CD", "u59D4", "u54E1", "u4F1A">> >> >> >>
      [] p = 4 ->
          << <<"LegalAffairsAgencyOrdinance", << <<"u6CD5", "u52D9", "u5E81">> >> >>,
            <<"PrimeMinistersOfficeOrdinance", << <<"u7DCF", "u7406", "u5E81">> >> >>,
            <<"EconomicStabilityHeadquartersOrdinance", << <<"u7D4C", "u6E08", "u5B89", "u5B9A", "u672C", "u90E8">> >> >>,
            <<"MinistryOfTheInteriorOrdinance", << <<"u5185", "u52D9", "u7701">> >> >>,
            <<"MinistryOfJusticeOrdinance", << <<"u53F8", "u6CD5", "u7701">> >> >>,
            <<"MinistryOfForeignAffairsOrdinance", << <<"u5916", "u52D9", "u7701">> >> >>,
            <<"MinistryOfFinanceOrdinance", << <<"tai", "u8535", "u7701">> >> >>,
            <<"MinistryOfEducationOrdinance", << <<"u6587", "u90E8", "u7701">> >> >>,
            <<"MinistryOfHealthAndWelfareOrdinance", << <<"u539A", "u751F", "u7701">> >> >>,
            <<"MinistryOfAgricultureAndForestryOrdinance", << <<"u8FB2", "u6797", "u7701">> >> >>,
            <<"MinistryOfInternationalTradeAndIndustryOrdinance", << <<"u901A", "u5546", "u7523", "u696D", "u7701">> >> >>,
            <<"MinistryOfTransportOrdinance", << <<"u904B", "u8F38", "u7701">> >> >>,
            <<"MinistryOfCommunicationsOrdinance", << <<"u9013", "u4FE1", "u7701">> >> >>,
            <<"MinistryOfLaborOrdinance", << <<"u52B4", "u50CD", "u7701">> >> >>,
            <<"MinistryOfConstructionOrdinance", << <<"u5EFA", "u8A2D", "u7701">> >> >>,
            <<"PriceAgencyOrdinance", << <<"u7269", "u4FA1", "u5E81">> >> >>,
            <<"MinistryOfCommerceAndIndustryOrdinance", << <<"u5546", "u5DE5", "u7701">> >> >>,
            <<"CentralLaborRelationsCommissionRules", << <<"u4E2D", "u592E", "u52B4", "u50CD", "u59D4", "u54E1", "u4F1A">> >> >>,
            <<"FairTradeCommissionRules", << <<"u516C", "shou", "u53D6", "u5F15", "u59D4", "u54E1", "u4F1A">> >> >>,
            <<"NationalPublicSafetyCommissionRegulations", << <<"u56FD", "u5BB6", "u516C", "u5B89", "u59D4", "u54E1", "u4F1A">> >> >> >>
      [] p = 5 ->
          << <<"LegalAffairsAgencyOrdinance", << <<"u6CD5", "u52D9", "u5E81">> >> >>,
            <<"PrimeMinistersOfficeOrdinance", << <<"u7DCF", "u7406", "u5E81">> >> >>,
            <<"EconomicStabilityHeadquartersOrdinance", << <<"u7D4C", "u6E08", "u5B89", "u5B9A", "u672C", "u90E8">> >> >>,
            <<"MinistryOfHomeAffairsOrdinance", << <<"u81EA", "ji", "u7701">> >> >>,
            <<"MinistryOfJusticeOrdinance", << <<"u6CD5", "u52D9", "u7701">> >> >>,
            <<"MinistryOfForeignAffairsOrdinance", << <<"u5916", "u52D9", "u7701">> >> >>,
            <<"MinistryOfFinanceOrdinance", << <<"tai", "u8535", "u7701">> >> >>,
            <<"MinistryOfEducationOrdinance", << <<"u6587", "u90E8", "u7701">> >> >>,
            <<"MinistryOfHealthAndWelfareOrdinance", << <<"u539A", "u751F", "u7701">> >> >>,
            <<"MinistryOfAgricultureAndForestryAndFisheriesOrdinance", << <<"u8FB2", "u6797", "u6C34", "u7523", "u7701">> >> >>,
            <<"MinistryOfInternationalTradeAndIndustryOrdinance", << <<"u901A", "u5546", "u7523", "u696D", "u7701">> >> >>,
            <<"MinistryOfTransportOrdinance", << <<"u904B", "u8F38", "u7701">> >> >>,
            <<"MinistryOfPostsAndTelecommunicationsOrdinance", << <<"u90F5", "u653F", "u7701">> >> >>,
            <<"MinistryOfLaborOrdinance", << <<"u52B4", "u50CD", "u7701">> >> >>,
            <<"MinistryOfConstructionOrdinance", << <<"u5EFA", "u8A2D", "u7701">> >> >>,
            <<"PriceAgencyOrdinance", << <<"u7269", "u4FA1", "u5E81">> >> >>,
            <<"MinistryOfAgricultureAndForestryOrdinance", << <<"u8FB2", "u6797", "u7701">> >> >>,
            <<"TelecommunicationsMinisterialOrdinance", << <<"u96FB", "u6C17", "u901A", "u4FE1", "u7701">> >> >>,
            <<"CentralMinistriesAndAgenciesReformPromotionHeadquartersOrdinance", << <<"u4E2D", "u592E", "u7701", "u5E81", "u7B49", "u6539", "u9769", "u63A8", "u9032", "u672C", "u90E8">> >> >>,
            <<"RadioRegulatoryCommissionRules", << <<"u96FB", "u6CE2", "u76E3", "u7406", "u59D4", "u54E1", "u4F1A">> >> >>,
            <<"CentralLaborRelationsCommissionRules", << <<"u4E2D", "u592E", "u52B4", "u50CD", "u59D4", "u54E1", "u4F1A">> >> >>,
            <<"FairTradeCommissionRules", << <<"u516C", "shou", "u53D6", "u5F15", "u59D4", "u54E1", "u4F1A">> >> >>,
            <<"NationalPublicSafetyCommissionRegulations", << <<"u56FD", "u5BB6", "u516C", "u5B89", "u59D4", "u54E1", "u4F1A">> >> >>,
            <<"PollutionAdjustmentCommitteeRules", << <<"u516C", "u5BB3", "u7B49", "u8ABF", "u6574", "u59D4", "u54E1", "u4F1A">> >> >>,
            <<"PublicSafetyReviewCommitteeRules", << <<"u516C", "u5B89", "u5BE9", "u67FB", "u59D4", "u54E1", "u4F1A">> >> >> >>
      [] p = 6 ->
          << <<"CabinetSecretariatOrdinance", << <<"u5185", "u95A3", "u5B98", "u623F">> >> >>,
            <<"PrimeMinistersOfficeOrdinance", << <<"u7DCF", "u7406", "u5E81">> >> >>,
            <<"MinistryOfHomeAffairsOrdinance", << <<"u5FA9", "u8208", "u5E81">> >> >>,
            <<"MinistryOfHomeAffairsOrdinance", << <<"u81EA", "ji", "u7701">> >> >>,
            <<"MinistryOfJusticeOrdinance", << <<"u6CD5", "u52D9", "u7701">> >> >>,
            <<"MinistryOfForeignAffairsOrdinance", << <<"u5916", "u52D9", "u7701">> >> >>,
            <<"MinistryOfFinanceOrdinance", << <<"u8CA1", "u52D9", "u7701">> >> >>,
            <<"MinistryOfEducationAndCultureAndSportsAndScienceAndTechnologyOrdinance", << <<"u6587", "u90E8", "u79D1", "u5B66", "u7701">> >> >>,
            <<"MinistryOfHealthAndLaborAndWelfareOrdinance", << <<"u539A", "u751F", "u52B4", "u50CD", "u7701">> >> >>,
            <<"MinistryOfAgricultureAndForestryAndFisheriesOrdinance", << <<"u8FB2", "u6797", "u6C34", "u7523", "u7701">> >> >>,
            <<"MinistryOfEconomyAndTradeAndIndustryOrdinance", << <<"u7D4C", "u6E08", "u7523", "u696D", "u7701">> >> >>,
            <<"MinistryOfLandAndInfrastructureAndTransportAndTourismOrdinance", << <<"u56FD", "u571F", "u4EA4", "u901A", "u7701">> >> >>,
            <<"MinistryOfTheEnvironmentOrdinance", << <<"u74B0", "u5883", "u7701">> >> >>,
            <<"MinistryOfDefenseOrdinance", << <<"u9632", "u885B", "u7701">> >> >>,
            <<"DigitalAgencyOrdinance", << <<"u30C7", "u30B8", "u30BF", "u30EB", "u5E81">> >> >>,
            <<"SpecificPersonalInformationProtectionCommissionRules", << <<"u7279", "u5B9A", "u500B", "u4EBA", "u60C5", "u5831", "u4FDD", "u8B77", "u59D4", "u54E1", "u4F1A">> >> >>,
            <<"JapanTransportSafetyBoardRegulations", << <<"u904B", "u8F38", "u5B89", "u5168", "u59D4", "u54E1", "u4F1A">> >> >>,
            <<"NuclearRegulationAuthorityRegulations", << <<"u539F", "u5B50", "u529B", "u898F", "u5236", "u59D4", "u54E1", "u4F1A">> >> >>,
            <<"CentralLaborRelationsCommissionRules", << <<"u4E2D", "u592E", "u52B4", "u50CD", "u59D4", "u54E1", "u4F1A">> >> >>,
            <<"FairTradeCommissionRules", << <<"u516C", "shou", "u53D6", "u5F15", "u59D4", "u54E1", "u4F1A">> >> >>,
            <<"NationalPublicSafetyCommissionRegulations", << <<"u56FD", "u5BB6", "u516C", "u5B89", "u59D4", "u54E1", "u4F1A">> >> >>,
            <<"PollutionAdjustmentCommitteeRules", << <<"u516C", "u5BB3", "u7B49", "u8ABF", "u6574", "u59D4", "u54E1", "u4F1A">> >> >>,
            <<"PublicSafetyReviewCommitteeRules", << <<"u516C", "u5B89", "u5BE9", "u67FB", "u59D4", "u54E1", "u4F1A">> >> >>,
            <<"CasinoManagementCommitteeRules", << <<"u30AB", "u30B8", "u30CE", "u7BA1", "u7406", "u59D4", "u54E1", "u4F1A">> >> >> >>

DocumentedNames(p) ==
    CASE p = 1 ->
          << <<"u95A3", "rei">>,
            <<"u5BAE", "u5185", "u7701", "rei">>,
            <<"tai", "u6771", "u4E9C", "u7701", "rei">>,
            <<"u5185", "u52D9", "u7701", "rei">>,
            <<"u53F8", "u6CD5", "u7701", "rei">>,
            <<"u5916", "u52D9", "u7701", "rei">>,
            <<"tai", "u8535", "u7701", "rei">>,
            <<"u6587", "u90E8", "u7701", "rei">>,
            <<"u539A", "u751F", "u7701", "rei">>,
            <<"u8FB2", "u5546", "u52D9", "u7701", "rei">>,
            <<"u5546", "u5DE5", "u7701", "rei">>,
            <<"u9244", "u9053", "u7701", "rei">>,
            <<"u9013", "u4FE1", "u7701", "rei">>,
            <<"u9678", "u8ECD", "u7701", "rei", "uFF08", "u7532", "uFF09">>,
            <<"u6D77", "u8ECD", "u7701", "rei">>,
            <<"u9678", "u8ECD", "u7701", "rei", "uFF08", "u4E59", "uFF09">>,
            <<"u8FB2", "u6797", "u7701", "rei">>,
            <<"u62D3", "u6B96", "u52D9", "u7701", "rei">>,
            <<"u62D3", "u52D9", "u7701", "rei">>,
            <<"u8FB2", "u5546", "u52D9", "u7701", "rei", "u81E8">>,
            <<"u53F8", "u6CD5", "u7701", "rei", "uFF08", "u4E19", "uFF09">> >>
      [] p = 2 ->
          << <<"u95A3", "rei">>,
            <<"u5BAE", "u5185", "u7701", "rei">>,
            <<"tai", "u6771", "u4E9C", "u7701", "rei">>,
            <<"u5185", "u52D9", "u7701", "rei">>,
            <<"u53F8", "u6CD5", "u7701", "rei">>,
            <<"u5916", "u52D9", "u7701", "rei">>,
            <<"tai", "u8535", "u7701", "rei">>,
            <<"u6587", "u90E8", "u7701", "rei">>,
            <<"u539A", "u751F", "u7701", "rei">>,
            <<"u8FB2", "u5546", "u52D9", "u7701", "rei">>,
            <<"u5546", "u5DE5", "u7701", "rei">>,
            <<"u904B", "u8F38", "u7701", "rei">>,
            <<"u904B", "u8F38", "u901A", "u4FE1", "u7701", "rei">>,
            <<"u9678", "u8ECD", "u7701", "rei", "uFF08", "u7532", "uFF09">>,
            <<"u6D77", "u8ECD", "u7701", "rei">>,
            <<"u8ECD", "u9700", "u7701", "rei">>,
            <<"u8FB2", "u6797", "u7701", "rei">> >>
      [] p = 3 ->
          << <<"u95A3", "rei">>,
            <<"u5BAE", "u5185", "u7701", "rei">>,
            <<"u7D4C", "u6E08", "u5B89", "u5B9A", "u672C", "u90E8", "rei">>,
            <<"u5185", "u52D9", "u7701", "rei">>,
            <<"u53F8", "u6CD5", "u7701", "rei">>,
            <<"u5916", "u52D9", "u7701", "rei">>,
            <<"tai", "u8535", "u7701", "rei">>,
            <<"u6587", "u90E8", "u7701", "rei">>,
            <<"u539A", "u751F", "u7701", "rei">>,
            <<"u8FB2", "u6797", "u7701", "rei">>,
            <<"u5546", "u5DE5", "u7701", "rei">>,
            <<"u904B", "u8F38", "u7701", "rei">>,
            <<"u9013", "u4FE1", "u7701", "rei">>,
            <<"u7B2C", "k1", "u5FA9", "u54E1", "u7701", "rei">>,
            <<"u7B2C", "k2", "u5FA9", "u54E1", "u7701", "rei">>,
            <<"u7269", "u4FA1", "u5E81", "rei">>,
            <<"u4E2D", "u592E", "u52B4", "u50CD", "u59D4", "u54E1", "u4F1A", "u898F", "u5247">> >>
      [] p = 4 ->
          << <<"u6CD5", "u52D9", "u5E81", "rei">>,
            <<"u7DCF", "u7406", "u5E81", "rei">>,
            <<"u7D4C", "u6E08", "u5B89", "u5B9A", "u672C", "u90E8", "rei">>,
            <<"u5185", "u52D9", "u7701", "rei">>,
            <<"u53F8", "u6CD5", "u7701", "rei">>,
            <<"u5916", "u52D9", "u7701", "rei">>,
            <<"tai", "u8535", "u7701", "rei">>,
            <<"u6587", "u90E8", "u7701", "rei">>,
            <<"u539A", "u751F", "u7701", "rei">>,
            <<"u8FB2", "u6797", "u7701", "rei">>,
            <<"u901A", "u5546", "u7523", "u696D", "u7701", "rei">>,
            <<"u904B", "u8F38", "u7701", "rei">>,
            <<"u9013", "u4FE1", "u7701", "rei">>,
            <<"u52B4", "u50CD", "u7701", "rei">>,
            <<"u5EFA", "u8A2D", "u7701", "rei">>,
            <<"u7269", "u4FA1", "u5E81", "rei">>,
            <<"u5546", "u5DE5", "u7701", "rei">>,
            <<"u4E2D", "u592E", "u52B4", "u50CD", "u59D4", "u54E1", "u4F1A", "u898F", "u5247">>,
            <<"u516C", "shou", "u53D6", "u5F15", "u59D4", "u54E1", "u4F1A", "u898F", "u5247">>,
            <<"u56FD", "u5BB6", "u516C", "u5B89", "u59D4", "u54E1", "u4F1A", "u898F", "u5247">> >>
      [] p = 5 ->
          << <<"u6CD5", "u52D9", "u5E81", "rei">>,
            <<"u7DCF", "u7406", "u5E81", "rei">>,
            <<"u7D4C", "u6E08", "u5B89", "u5B9A", "u672C", "u90E8", "rei">>,
            <<"u81EA", "ji", "u7701", "rei">>,
            <<"u6CD5", "u52D9", "u7701", "rei">>,
            <<"u5916", "u52D9", "u7701", "rei">>,
            <<"tai", "u8535", "u7701", "rei">>,
            <<"u6587", "u90E8", "u7701", "rei">>,
            <<"u539A", "u751F", "u7701", "rei">>,
            <<"u8FB2", "u6797", "u6C34", "u7523", "u7701", "rei">>,
            <<"u901A", "u5546", "u7523", "u696D", "u7701", "rei">>,
            <<"u904B", "u8F38", "u7701", "rei">>,
            <<"u90F5", "u653F", "u7701", "rei">>,
            <<"u52B4", "u50CD", "u7701", "rei">>,
            <<"u5EFA", "u8A2D", "u7701", "rei">>,
            <<"u7269", "u4FA1", "u5E81", "rei">>,
            <<"u8FB2", "u6797", "u7701", "rei">>,
            <<"u96FB", "u6C17", "u901A", "u4FE1", "u7701", "rei">>,
            <<"u4E2D", "u592E", "u7701", "u5E81", "u7B49", "u6539", "u9769", "u63A8", "u9032", "u672C", "u90E8", "rei">>,
            <<"u96FB", "u6CE2", "u76E3", "u7406", "u59D4", "u54E1", "u4F1A", "u898F", "u5247">>,
            <<"u4E2D", "u592E", "u52B4", "u50CD", "u59D4", "u54E1", "u4F1A", "u898F", "u5247">>,
            <<"u516C", "shou", "u53D6", "u5F15", "u59D4", "u54E1", "u4F1A", "u898F", "u5247">>,
            <<"u56FD", "u5BB6", "u516C", "u5B89", "u59D4", "u54E1", "u4F1A", "u898F", "u5247">>,
            <<"u516C", "u5BB3", "u7B49", "u8ABF", "u6574", "u59D4", "u54E1", "u4F1A", "u898F", "u5247">>,
            <<"u516C", "u5B89", "u5BE9", "u67FB", "u59D4", "u54E1", "u4F1A", "u898F", "u5247">> >>
      [] p = 6 ->
          << <<"u5185", "u95A3", "u5B98", "u623F", "rei">>,
            <<"u7DCF", "u7406", "u5E81", "rei">>,
            <<"u5FA9", "u8208", "u5E81", "rei">>,
            <<"u81EA", "ji", "u7701", "rei">>,
            <<"u6CD5", "u52D9", "u7701", "rei">>,
            <<"u5916", "u52D9", "u7701", "rei">>,
            <<"u8CA1", "u52D9", "u7701", "rei">>,
            <<"u6587", "u90E8", "u79D1", "u5B66", "u7701", "rei">>,
            <<"u539A", "u751F", "u52B4", "u50CD", "u7701", "rei">>,
            <<"u8FB2", "u6797", "u6C34", "u7523", "u7701", "rei">>,
            <<"u7D4C", "u6E08", "u7523", "u696D", "u7701", "rei">>,
            <<"u56FD", "u571F", "u4EA4", "u901A", "u7701", "rei">>,
            <<"u74B0", "u5883", "u7701", "rei">>,
            <<"u9632", "u885B", "u7701", "rei">>,
            <<"u30C7", "u30B8", "u30BF", "u30EB", "u5E81", "rei">>,
            <<"u7279", "u5B9A", "u500B", "u4EBA", "u60C5", "u5831", "u4FDD", "u8B77", "u59D4", "u54E1", "u4F1A", "u898F", "u5247">>,
            <<"u904B", "u8F38", "u5B89", "u5168", "u59D4", "u54E1", "u4F1A", "u898F", "u5247">>,
            <<"u539F", "u5B50", "u529B", "u898F", "u5236", "u59D4", "u54E1", "u4F1A", "u898F", "u5247">>,
            <<"u4E2D", "u592E", "u52B4", "u50CD", "u59D4", "u54E1", "u4F1A", "u898F", "u5247">>,
            <<"u516C", "shou", "u53D6", "u5F15", "u59D4", "u54E1", "u4F1A", "u898F", "u5247">>,
            <<"u56FD", "u5BB6", "u516C", "u5B89", "u59D4", "u54E1", "u4F1A", "u898F", "u5247">>,
            <<"u516C", "u5BB3", "u7B49", "u8ABF", "u6574", "u59D4", "u54E1", "u4F1A", "u898F", "u5247">>,
            <<"u516C", "u5B89", "u5BE9", "u67FB", "u59D4", "u54E1", "u4F1A", "u898F", "u5247">>,
            <<"u30AB", "u30B8", "u30CE", "u7BA1", "u7406", "u59D4", "u54E1", "u4F1A", "u898F", "u5247">> >>

\* name.contains(needle)
Contains(name, needle) ==
    \E i \in 1..(Len(name) - Len(needle) + 1) :
        SubSeq(name, i, i + Len(needle) - 1) = needle

RECURSIVE PushMatches(_, _, _)
\* the if statements from the k-th on, run against name
PushMatches(rules, k, name) ==
    IF k > Len(rules) THEN <<>>
    ELSE (IF \A n \in 1..Len(rules[k][2]) : Contains(name, rules[k][2][n])
          THEN <<rules[k][1]>> ELSE <<>>)
         \o PushMatches(rules, k + 1, name)

MinistryContents_from_name(p, name) == PushMatches(FromNameRules(p), 1, name)

\* the documented name of the k-th member of period p without the closing
\* "rei" (order) or "u898F" "u5247" (rules)
IssuerName(p, k) ==
    LET d == DocumentedNames(p)[k]
    IN  IF d[Len(d)] = "rei" THEN SubSeq(d, 1, Len(d) - 1)
        ELSE IF SubSeq(d, Len(d) - 1, Len(d)) = <<"u898F", "u5247">>
             THEN SubSeq(d, 1, Len(d) - 2)
        ELSE d

\* the texts given to from_name of period p: nothing, a documented name of
\* any period with and without its closing word, and two documented names
\* of the period joined by a middle dot
NameTexts(p) ==
    {<<>>}
    \cup UNION {UNION {{DocumentedNames(q)[k], IssuerName(q, k)} :
                          k \in 1..Len(PeriodMembers(q))} : q \in Periods}
    \cup {IssuerName(p, h) \o <<"u30FB">> \o DocumentedNames(p)[k] :
            h \in 1..Len(PeriodMembers(p)), k \in 1..Len(PeriodMembers(p))}

InitNames ==
    /\ pc = "name"
    /\ period \in Periods
    /\ text \in NameTexts(period)
    /\ parsed = Idle
    /\ members = Idle /\ hexStr = Idle /\ byteStr = Idle /\ decMembers = Idle
    /\ CalIdle /\ IdIdle /\ CodeIdle

FromName ==
    /\ pc = "name"
    /\ parsed' = MinistryContents_from_name(period, text)
    /\ pc' = "from_name"
    /\ UNCHANGED <<text, calVars, idVars, minVars, codeVars>>

NextNames == FromName

SpecNames == InitNames /\ [][NextNames]_vars

\* the position of member m in the declaration of period p
DeclIndex(p, m) == CHOOSE k \in 1..Len(PeriodMembers(p)) : PeriodMembers(p)[k] = m

\* C16: in each period from_name returns all matching members in
\* declaration order wherever the names stand in the text, and for every
\* member m a text that contains m's documented name yields a list that
\* contains m.
C16_FromNameListsEveryNamedMember ==
    pc = "from_name" =>
        /\ \A i \in 1..Len(parsed), j \in 1..Len(parsed) :
               i < j => DeclIndex(period, parsed[i]) < DeclIndex(period, parsed[j])
        /\ \A k \in 1..Len(PeriodMembers(period)) :
               Contains(text, IssuerName(period, k))
                   => \E i \in 1..Len(parsed) : parsed[i] = PeriodMembers(period)[k]

\* C16 for every member but ReconstructionAgencyOrdinance of M6, whose name
\* adds MinistryOfHomeAffairsOrdinance instead: the list is in declaration
\* order, twice the same member at most next to each other
C16_AllButReconstructionAgency ==
    pc = "from_name" =>
        /\ \A i \in 1..Len(parsed), j \in 1..Len(parsed) :
               i < j => DeclIndex(period, parsed[i]) <= DeclIndex(period, parsed[j])
        /\ \A k \in 1..Len(PeriodMembers(period)) :
               (Contains(text, IssuerName(period, k))
                  /\ PeriodMembers(period)[k] # "ReconstructionAgencyOrdinance")
                   => \E i \in 1..Len(parsed) : parsed[i] = PeriodMembers(period)[k]

-----------------------------------------------------------------------------
(* Ministry::from_name: the period from the Wareki of a title, the members
   from the name of the issuer.  "u6708" is the month sign, "u65E5" the day
   sign, "rei" the word order and "u898F" "u5247" the word rules. *)

\* the character class of the three numerals of the pattern
NumeralClass == KansujiClass \cup NumClass \cup NumZenClass

\* an optional group [class]+<sign> tried at index x: the index after it,
\* or x when it is not there
AfterGroup(t, x, sign) ==
    LET j == RunEnd(t, x, NumeralClass)
    IN  IF j >= x /\ j + 1 <= Len(t) /\ t[j + 1] = sign THEN j + 2 ELSE x

\* the indices where the closing word can start when the issuer's name
\* starts at index x: .+ takes at least one character
ClosingAt(t, x) ==
    {e \in (x + 1)..Len(t) :
        t[e] = "rei" \/ (e + 1 <= Len(t) /\ t[e] = "u898F" /\ t[e + 1] = "u5247")}

\* the starts of the issuer's name in the order the pattern tries them:
\* after month and day, after the month, after the day, after the year sign
IssuerStarts(t, a) ==
    <<AfterGroup(t, AfterGroup(t, a, "u6708"), "u65E5"),
      AfterGroup(t, a, "u6708"),
      AfterGroup(t, a, "u65E5"),
      a>>

\* the pattern tried at index i: era name, numerals, year sign, the optional
\* month and day, the issuer's name as long as it can be, the closing word
TitleMatchAt(t, i) ==
    IF i + 1 > Len(t) \/ ~IsSome(Era_from_text(SubSeq(t, i, i + 1))) THEN None
    ELSE LET j == RunEnd(t, i + 2, NumeralClass) IN
    IF ~(j >= i + 2 /\ j + 1 <= Len(t) /\ t[j + 1] = "nen") THEN None
    ELSE LET xs == IssuerStarts(t, j + 2) IN
    IF \A n \in 1..4 : ClosingAt(t, xs[n]) = {} THEN None
    ELSE LET n == CHOOSE n \in 1..4 :
                     ClosingAt(t, xs[n]) # {} /\ \A h \in 1..(n - 1) : ClosingAt(t, xs[h]) = {}
             e == CHOOSE e \in ClosingAt(t, xs[n]) : \A f \in ClosingAt(t, xs[n]) : f <= e
         IN  Some([wareki |-> SubSeq(t, i, j), ministry |-> SubSeq(t, xs[n], e - 1)])

\* re.captures(name): the leftmost match
TitleCaptures(t) ==
    IF \E i \in 1..Len(t) : IsSome(TitleMatchAt(t, i))
    THEN TitleMatchAt(t, CHOOSE i \in 1..Len(t) :
                            IsSome(TitleMatchAt(t, i))
                            /\ \A h \in 1..(i - 1) : ~IsSome(TitleMatchAt(t, h)))
    ELSE None

MinistryContents_applicable_wareki(p, w) ==
    /\ MinistryContents_start(p).year <= Wareki_to_ad(w)
    /\ Wareki_to_ad(w) <= MinistryContents_end(p).year

Err(msg) == <<"Err", <<msg>>>>

\* the chain of applicable_wareki tests, M1 first
MinistryOfWareki(w, ministry_s) ==
    IF \E p \in Periods : MinistryContents_applicable_wareki(p, w)
    THEN LET p == CHOOSE p \in Periods :
                      /\ MinistryContents_applicable_wareki(p, w)
                      /\ \A q \in 1..(p - 1) : ~MinistryContents_applicable_wareki(q, w)
         IN  Ok(Ministry_new(p, MinistryContents_from_name(p, ministry_s)))
    ELSE Err("Unexpected input")

\* every value Ministry::from_name(name) can return
Ministry_from_name(name) ==
    LET caps == TitleCaptures(name) IN
    IF ~IsSome(caps) THEN {Err("Unexpected input")}
    ELSE {IF IsSome(w) THEN MinistryOfWareki(w[2], caps[2].ministry)
          ELSE Err("Unexpected input") : w \in Wareki_from_text(caps[2].wareki)}

\* the years of the titles: the first and second of an era, and the years of
\* Meiji, Showa, Heisei and Reiwa in which the periods begin and end
TitleYears == {1, 2, 5, 13} \cup 18..25

\* one issuer of each period, the closing word apart
TitleIssuers == {IssuerName(p, 9) : p \in Periods} \cup {IssuerName(3, 17)}

TitleClosings == {<<"rei">>, <<"u898F", "u5247">>}

\* <era name><year numeral><year sign><issuer><closing word>
Titles ==
    [era : EraSet, year : TitleYears, spelling : 1..3, issuer : TitleIssuers,
     closing : TitleClosings]

TitleText(r) ==
    Era_to_text(r.era)
    \o (CASE r.spelling = 1 -> KansujiOf(r.year)
          [] r.spelling = 2 -> NumOf(r.year)
          [] r.spelling = 3 -> NumZenOf(r.year))
    \o <<"nen">> \o r.issuer \o r.closing

\* titles with a part left out or replaced, and titles with a date
BrokenTitles ==
    UNION {{SubSeq(TitleText(r), 3, Len(TitleText(r))),
            SubSeq(TitleText(r), 1, Len(TitleText(r)) - Len(r.closing)),
            Era_to_text(r.era) \o <<"gan", "nen">> \o r.issuer \o r.closing,
            Era_to_text(r.era) \o NumOf(r.year) \o r.issuer \o r.closing,
            Era_to_text(r.era) \o NumOf(r.year) \o <<"nen">> \o r.closing,
            Era_to_text(r.era) \o NumOf(r.year) \o <<"nen", "4", "u6708", "7", "u65E5">>
                \o r.issuer \o r.closing} :
             r \in {q \in Titles : q.year \in {1, 5} /\ q.spelling = 2}}

InitTitle ==
    /\ pc = "title"
    /\ text \in {TitleText(r) : r \in Titles} \cup BrokenTitles
    /\ parsed = Idle
    /\ CalIdle /\ IdIdle /\ MinIdle /\ CodeIdle

MinistryFromName ==
    /\ pc = "title"
    /\ parsed' \in Ministry_from_name(text)
    /\ pc' = "ministry_from_name"
    /\ UNCHANGED <<text, calVars, idVars, minVars, codeVars>>

NextTitle == MinistryFromName

SpecTitle == InitTitle /\ [][NextTitle]_vars

\* the Gregorian year of Wareki w lies in the year range of period p
InYearRange(p, w) ==
    LET ad == Era_start_year(w.era) + w.year
    IN  MinistryContents_start(p).year <= ad /\ ad <= MinistryContents_end(p).year

\* C15: for every text <era name><year numeral><year sign><ministry name>
\* <order or rules> whose Wareki converts to a Gregorian year inside some
\* period's year range, Ministry::from_name returns Ok with the variant of
\* the governing period holding that period's from_name result for the
\* ministry name; Err is returned only when no period accepts the Wareki or
\* the parts cannot be located.
C15_TitleGivesMinistry ==
    pc = "ministry_from_name" =>
        \A r \in Titles :
            (text = TitleText(r)
               /\ \E p \in Periods : InYearRange(p, Wareki_new(r.era, r.year)))
                => \E p \in Periods :
                     /\ InYearRange(p, Wareki_new(r.era, r.year))
                     /\ parsed = Ok(Ministry_new(p, MinistryContents_from_name(p, r.issuer)))

-----------------------------------------------------------------------------
(* The order of Date: a.cmp(&b) *)

\* s.cmp(&o) on the two keys.  The years of the pairs below stay far from
\* the overflow of the key.
Date_cmp(a, b) ==
    LET s == DateKey(a.year, a.month, a.day)
        o == DateKey(b.year, b.month, b.day)
    IN  IF s < o THEN "Less" ELSE IF s = o THEN "Equal" ELSE "Greater"

\* Date::new_ad takes any three numbers: months and days at, below and
\* above 100, where a field reaches into the next one of the key
PairYears == {2000, 2001}
PairFields == {0, 1, 2, 99, 100, 101}

PairDates == {Date_new_ad(y, m, d) : y \in PairYears, m \in PairFields, d \in PairFields}

InitOrder ==
    /\ pc = "pair"
    /\ date \in PairDates
    /\ otherDate \in PairDates
    /\ wareki = Idle /\ adYear = Idle /\ applies = Idle /\ ordering = Idle
    /\ TextIdle /\ IdIdle /\ MinIdle /\ CodeIdle

Cmp ==
    /\ pc = "pair"
    /\ ordering' = Date_cmp(date, otherDate)
    /\ pc' = "cmp"
    /\ UNCHANGED <<date, wareki, adYear, applies, otherDate, textVars, idVars, minVars,
                   codeVars>>

NextOrder == Cmp

SpecOrder == InitOrder /\ [][NextOrder]_vars

\* the lexicographic order on (year, month, day)
Lexicographic(a, b) ==
    IF a.year # b.year THEN (IF a.year < b.year THEN "Less" ELSE "Greater")
    ELSE IF a.month # b.month THEN (IF a.month < b.month THEN "Less" ELSE "Greater")
    ELSE IF a.day # b.day THEN (IF a.day < b.day THEN "Less" ELSE "Greater")
    ELSE "Equal"

\* C21: Ord::cmp is the lexicographic order on (year, month, day) for every
\* pair of Dates made with Date::new_ad, whatever month and day they carry.
C21_CmpIsLexicographic ==
    pc = "cmp" => ordering = Lexicographic(date, otherDate)

\* C21 for months and days below 100
C21_LexicographicBelow100 ==
    (pc = "cmp" /\ date.month < 100 /\ date.day < 100
       /\ otherDate.month < 100 /\ otherDate.day < 100)
        => ordering = Lexicographic(date, otherDate)

\* C29: the order agrees with the derived equality: a.cmp(&b) is Equal if
\* and only if a == b, also for months and days of 100 or more.
C29_EqualOnlyIfSame ==
    pc = "cmp" => (ordering = "Equal" <=> date = otherDate)

\* C29 for months and days below 100
C29_EqualOnlyIfSameBelow100 ==
    (pc = "cmp" /\ date.month < 100 /\ date.day < 100
       /\ otherDate.month < 100 /\ otherDate.day < 100)
        => (ordering = "Equal" <=> date = otherDate)

-----------------------------------------------------------------------------
(* The periods of a Wareki: applicable_wareki of the six periods *)

PeriodWarekis == {Wareki_new(e, y) : e \in EraSet, y \in 1..MaxYear}

InitWarekiPeriods ==
    /\ pc = "wareki"
    /\ wareki \in PeriodWarekis
    /\ date = Idle /\ adYear = Idle /\ applies = Idle
    /\ otherDate = Idle /\ ordering = Idle
    /\ TextIdle /\ IdIdle /\ MinIdle /\ CodeIdle

ApplicableWareki ==
    /\ pc = "wareki"
    /\ applies' = [p \in Periods |-> MinistryContents_applicable_wareki(p, wareki)]
    /\ pc' = "applicable_wareki"
    /\ UNCHANGED <<date, wareki, adYear, otherDate, ordering, textVars, idVars, minVars,
                   codeVars>>

NextWarekiPeriods == ApplicableWareki

SpecWarekiPeriods == InitWarekiPeriods /\ [][NextWarekiPeriods]_vars

\* C24: for every Wareki whose Gregorian year is 1869 or later exactly one
\* period's applicable_wareki returns true, the years 1943, 1945, 1947, 1949
\* and 2001 included, so the order of the tests in Ministry::from_name does
\* not matter.
C24_ExactlyOnePeriodOfWareki ==
    (pc = "applicable_wareki" /\ Era_start_year(wareki.era) + wareki.year >= 1869)
        => Cardinality({p \in Periods : applies[p]}) = 1

\* C24 as far as it holds: one period, or two that follow each other, and
\* two only in the years in which a period ends and the next begins
C24_OneOrTwoPeriodsOfWareki ==
    (pc = "applicable_wareki" /\ Era_start_year(wareki.era) + wareki.year >= 1869)
        => LET ps == {p \in Periods : applies[p]}
               ad == Era_start_year(wareki.era) + wareki.year
           IN  /\ Cardinality(ps) \in {1, 2}
               /\ \A p \in ps, q \in ps : p - q \in {-1, 0, 1}
               /\ Cardinality(ps) = 2 <=> ad \in {1943, 1945, 1947, 1949, 2001}

-----------------------------------------------------------------------------
(* What a decoded identifier holds *)

\* year >= 1 and start_year + year within the Gregorian years of the era
WarekiWithinEra(w) ==
    /\ w.year >= 1
    /\ Era_start(w.era) \div 10000 <= Era_start_year(w.era) + w.year
    /\ w.era # "Reiwa" => Era_start_year(w.era) + w.year <= Era_end(w.era) \div 10000

\* C23: every Wareki inside a LawId that LawId::from_id_str returns has
\* year >= 1 and lies within the Gregorian years of its era; ID strings
\* whose year digits are 00 or beyond the era's length are rejected with None.
C23_DecodedWarekiWithinEra ==
    (pc = "decoded" /\ decoded[1] = "Some") => WarekiWithinEra(decoded[2].wareki)

\* C26: Ministry::from_id_str never returns Ok with an empty member list: a
\* period tag followed by the mask 0000000 is rejected, so every MinistryOrder
\* that is decoded owns at least one member.
C26_DecodedMinistryNotEmpty ==
    (pc = "decoded" /\ decoded[1] = "Some" /\ decoded[2].law_type.tag = "MinistryOrder")
        => Len(decoded[2].law_type.ministry.l) > 0

\* C30: for every period and every text, the list from_name returns holds
\* no member more than once.
C30_FromNameWithoutRepeats ==
    pc = "from_name" =>
        \A i \in 1..Len(parsed), j \in 1..Len(parsed) : i # j => parsed[i] # parsed[j]

\* C30 for every member but MinistryOfHomeAffairsOrdinance of M6
C30_RepeatsOnlyHomeAffairs ==
    pc = "from_name" =>
        \A i \in 1..Len(parsed), j \in 1..Len(parsed) :
            (i # j /\ parsed[i] = parsed[j])
                => period = 6 /\ parsed[i] = "MinistryOfHomeAffairsOrdinance"

-----------------------------------------------------------------------------
(* The order of a decoded member list *)

\* C27: every member list Ministry::from_id_str returns is strictly
\* descending in bit position, without repeats; for every Ministry m whose
\* list is strictly descending from_id_str(m.to_id_str()) is Ok(m), and for a
\* list in any other order (such as the ascending order of from_name) the
\* decoded value is not m.
C27_DescendingListsRoundTrip ==
    pc = "from_id_str" =>
        LET m == Ministry_new(period, members)
            again == Ministry_from_id_str(Ministry_to_id_str(m))
        IN  /\ Ministry_to_id_str(m) = <<"M", DecDigits[period + 1]>> \o hexStr
            /\ again = (IF decMembers[1] = "Ok"
                       THEN Ok(Ministry_new(period, decMembers[2])) ELSE decMembers)
            /\ again[1] = "Ok"
            /\ StrictlyDescending(period, again[2].l)
            /\ StrictlyDescending(period, members) => again = Ok(m)
            /\ ~StrictlyDescending(period, members) => again # Ok(m)

\* two members of M6 listed highest position first come again as they are
C27_Witness ==
    /\ pc = "from_id_str"
    /\ period = 6
    /\ members = <<"MinistryOfTheEnvironmentOrdinance", "MinistryOfForeignAffairsOrdinance">>
    /\ StrictlyDescending(period, members)
    /\ hexStr = <<"0", "0", "0", "1", "0", "2", "0">>
    /\ decMembers = Ok(members)

-----------------------------------------------------------------------------
(* The round trip of the identifiers without a member list *)

\* C28: for every LawId whose Wareki year is in 1..99, whose LawType is not
\* MinistryOrder and whose numeric fields fit their widths,
\* from_id_str(to_id_str(x)) is Some(x): for the three RippouType values, the
\* two LawEfficacy values and the eighteen Institution values.
C28_PlainRoundTrip ==
    (pc = "from_id_str" /\ lawId.wareki.year \in 1..99
       /\ lawId.law_type.tag # "MinistryOrder" /\ FieldsFit(lawId.law_type))
        => decoded = Some(lawId)

\* a Regulation of the institution numbered 19 in Heisei 99 comes back
C28_Witness ==
    /\ pc = "from_id_str"
    /\ lawId = LawId_new(Wareki_new("Heisei", 99),
                         Regulation("CasinoManagementCommittee", 999))
    /\ Institution_to_int("CasinoManagementCommittee") = 19
    /\ decoded = Some(lawId)

====
